---- MODULE Spec2Model ----
(***************************************************************************)
(* Webhook delivery and verification core of bg.inbound.new:               *)
(*   - the signature codec (HMAC-SHA256 signing and verification),         *)
(*   - the delivery engine (sendWebhook: retries, backoff),                *)
(*   - the job registry and the inbound verifier (launch of a Cursor agent *)
(*     from an inbound email, and the Cursor completion webhook).          *)
(* Strings are sequences of UTF-16 code units, buffers sequences of bytes. *)
(***************************************************************************)
EXTENDS Integers, Sequences, FiniteSets, TLC

VARIABLES cx, sw, emailAgent, user, cursorAgentMapping, agentLaunchLog, cursorApi, http

vars == <<cx, sw, emailAgent, user, cursorAgentMapping, agentLaunchLog, cursorApi, http>>

\* JavaScript's null / undefined where a string is expected: a sequence that
\* is no string (no code unit is negative).
Null == <<-1>>
\* A field that the body of a request does not have, where null is a value
\* of the field.
Undefined == <<-2>>
\* A result that is not computed yet.
Pending == "pending"

(***************************************************************************)
(* Bounds of the model.                                                    *)
(***************************************************************************)
\* Largest maxRetries a delivery is started with.
MaxRetriesBound == 6
\* Inbound emails processed (launch attempts).
MaxLaunches == 1
\* Longest run of consecutive deliveries of one webhook request.
MaxReplays == 2
\* Most status polls in a run.
MaxPolls == 2
\* Most webhook registrations in a run.
MaxRegistrations == 2
\* The jobs that are tracked when a run of polls over several jobs starts.
MaxTracked == 2
\* Most requests of the account pages and calls of the MCP tools in a run.
MaxRequests == 1
\* Most requests to the agents API, polls and registrations together, in a
\* run of the notifier.
MaxAgentsApiRequests == 2
\* Most webhook requests whose handlers are under way at a time. The
\* handler writes nothing, so requests that overlap do not meet.
MaxReceiving == 1

\* Most status polls where a poll is followed through a stale update of
\* another and a third poll after both.
MaxRepolls == 3

(***************************************************************************)
(* Signature codec.                                                        *)
(***************************************************************************)
\* The string 'sha256='.
Sha256Prefix == <<115, 104, 97, 50, 53, 54, 61>>

\* String.prototype.startsWith
startsWith(s, p) == Len(s) >= Len(p) /\ SubSeq(s, 1, Len(p)) = p

\* String.prototype.slice(n)
slice(s, n) == SubSeq(s, n + 1, Len(s))

IsHighSurrogate(c) == c >= 55296 /\ c <= 56319
IsLowSurrogate(c) == c >= 56320 /\ c <= 57343

\* The UTF-8 bytes Node writes for a JavaScript string (update(str, 'utf8')):
\* a surrogate pair is one 4-byte sequence, a lone surrogate becomes U+FFFD.
RECURSIVE Utf8(_)
Utf8(s) ==
  IF s = <<>> THEN <<>>
  ELSE LET c == Head(s) IN
    IF c < 128 THEN <<c>> \o Utf8(Tail(s))
    ELSE IF c < 2048 THEN <<192 + (c \div 64), 128 + (c % 64)>> \o Utf8(Tail(s))
    ELSE IF IsHighSurrogate(c) /\ Len(s) >= 2 /\ IsLowSurrogate(s[2])
      THEN LET cp == 65536 + (c - 55296) * 1024 + (s[2] - 56320) IN
           <<240 + (cp \div 262144), 128 + ((cp \div 4096) % 64),
             128 + ((cp \div 64) % 64), 128 + (cp % 64)>> \o Utf8(Tail(Tail(s)))
    ELSE IF IsHighSurrogate(c) \/ IsLowSurrogate(c)
      THEN <<239, 191, 189>> \o Utf8(Tail(s))
    ELSE <<224 + (c \div 4096), 128 + ((c \div 64) % 64), 128 + (c % 64)>>
           \o Utf8(Tail(s))

(***************************************************************************)
(* SHA-256 (FIPS 180-4) and HMAC (RFC 2104), which crypto.createHmac       *)
(* computes. A 32-bit word is a pair <<high 16 bits, low 16 bits>>.        *)
(***************************************************************************)
\* Bitwise exclusive or and bitwise and of two numbers of the given width.
RECURSIVE BitXor(_, _, _)
BitXor(a, b, bits) ==
  IF bits = 0 THEN 0
  ELSE ((a + b) % 2) + 2 * BitXor(a \div 2, b \div 2, bits - 1)

RECURSIVE BitAnd(_, _, _)
BitAnd(a, b, bits) ==
  IF bits = 0 THEN 0
  ELSE (a % 2) * (b % 2) + 2 * BitAnd(a \div 2, b \div 2, bits - 1)

\* The tables of both operations on 4-bit numbers and, from these, on
\* bytes: row a + 1, column b + 1.
RECURSIVE NibbleRow(_, _, _)
NibbleRow(isXor, a, b) ==
  IF b > 15 THEN <<>>
  ELSE <<IF isXor THEN BitXor(a, b, 4) ELSE BitAnd(a, b, 4)>> \o NibbleRow(isXor, a, b + 1)

RECURSIVE NibbleRows(_, _)
NibbleRows(isXor, a) ==
  IF a > 15 THEN <<>> ELSE <<NibbleRow(isXor, a, 0)>> \o NibbleRows(isXor, a + 1)

XorNibbles == NibbleRows(TRUE, 0)
AndNibbles == NibbleRows(FALSE, 0)

RECURSIVE ByteRow(_, _, _, _)
ByteRow(nibbles, a, from, to) ==
  IF from = to
  THEN <<nibbles[(a \div 16) + 1][(from \div 16) + 1] * 16
           + nibbles[(a % 16) + 1][(from % 16) + 1]>>
  ELSE ByteRow(nibbles, a, from, (from + to) \div 2)
         \o ByteRow(nibbles, a, (from + to) \div 2 + 1, to)

RECURSIVE ByteRows(_, _, _)
ByteRows(nibbles, from, to) ==
  IF from = to THEN <<ByteRow(nibbles, from, 0, 255)>>
  ELSE ByteRows(nibbles, from, (from + to) \div 2)
         \o ByteRows(nibbles, (from + to) \div 2 + 1, to)

XorBytes == ByteRows(XorNibbles, 0, 255)
AndBytes == ByteRows(AndNibbles, 0, 255)

Xor16(a, b) ==
  XorBytes[(a \div 256) + 1][(b \div 256) + 1] * 256 + XorBytes[(a % 256) + 1][(b % 256) + 1]

And16(a, b) ==
  AndBytes[(a \div 256) + 1][(b \div 256) + 1] * 256 + AndBytes[(a % 256) + 1][(b % 256) + 1]

XorW(p, q) == <<Xor16(p[1], q[1]), Xor16(p[2], q[2])>>
Xor3W(p, q, r) == <<Xor16(Xor16(p[1], q[1]), r[1]), Xor16(Xor16(p[2], q[2]), r[2])>>
AndW(p, q) == <<And16(p[1], q[1]), And16(p[2], q[2])>>
NotW(p) == <<65535 - p[1], 65535 - p[2]>>

\* Rotation and shift to the right by n bits, 0 < n < 32.
RotrW(p, n) ==
  LET hi == IF n >= 16 THEN p[2] ELSE p[1]
      lo == IF n >= 16 THEN p[1] ELSE p[2]
      lowBits == 2 ^ (n % 16)
      shift == 2 ^ (16 - (n % 16))
  IN <<(hi \div lowBits) + (lo % lowBits) * shift,
       (lo \div lowBits) + (hi % lowBits) * shift>>

ShrW(p, n) ==
  LET lowBits == 2 ^ n
      shift == 2 ^ (16 - n)
  IN <<p[1] \div lowBits, (p[2] \div lowBits) + (p[1] % lowBits) * shift>>

\* Addition modulo 2^32 of the words whose high halves add up to hi and
\* whose low halves add up to lo.
SumW(hi, lo) == <<(hi + (lo \div 65536)) % 65536, lo % 65536>>
AddW(p, q) == SumW(p[1] + q[1], p[2] + q[2])

Ch(x, y, z) == XorW(AndW(x, y), AndW(NotW(x), z))
Maj(x, y, z) == Xor3W(AndW(x, y), AndW(x, z), AndW(y, z))
BigSigma0(x) == Xor3W(RotrW(x, 2), RotrW(x, 13), RotrW(x, 22))
BigSigma1(x) == Xor3W(RotrW(x, 6), RotrW(x, 11), RotrW(x, 25))
SmallSigma0(x) == Xor3W(RotrW(x, 7), RotrW(x, 18), ShrW(x, 3))
SmallSigma1(x) == Xor3W(RotrW(x, 17), RotrW(x, 19), ShrW(x, 10))

RoundConstants ==
  <<
    <<17034, 12184>>, <<28983, 17553>>, <<46528, 64463>>, <<59829, 56229>>,
    <<14678, 49755>>, <<23025, 4593>>, <<37439, 33444>>, <<43804, 24277>>,
    <<55303, 43672>>, <<4739, 23297>>, <<9265, 34238>>, <<21772, 32195>>,
    <<29374, 23924>>, <<32990, 45566>>, <<39900, 1703>>, <<49563, 61812>>,
    <<58523, 27073>>, <<61374, 18310>>, <<4033, 40390>>, <<9228, 41420>>,
    <<11753, 11375>>, <<19060, 33962>>, <<23728, 43484>>, <<30457, 35034>>,
    <<38974, 20818>>, <<43057, 50797>>, <<45059, 10184>>, <<48985, 32711>>,
    <<50912, 3059>>, <<54695, 37191>>, <<1738, 25425>>, <<5161, 10599>>,
    <<10167, 2693>>, <<11803, 8504>>, <<19756, 28156>>, <<21304, 3347>>,
    <<25866, 29524>>, <<30314, 2747>>, <<33218, 51502>>, <<37490, 11397>>,
    <<41663, 59553>>, <<43034, 26187>>, <<49739, 35696>>, <<51052, 20899>>,
    <<53650, 59417>>, <<54937, 1572>>, <<62478, 13701>>, <<4202, 41072>>,
    <<6564, 49430>>, <<7735, 27656>>, <<10056, 30540>>, <<13488, 48309>>,
    <<14620, 3251>>, <<20184, 43594>>, <<23452, 51791>>, <<26670, 28659>>,
    <<29839, 33518>>, <<30885, 25455>>, <<33992, 30740>>, <<36039, 520>>,
    <<37054, 65530>>, <<42064, 27883>>, <<48889, 41975>>, <<50801, 30962>>
  >>

InitialHash ==
  <<
    <<27145, 58983>>, <<47975, 44677>>, <<15470, 62322>>, <<42319, 62778>>,
    <<20750, 21119>>, <<39685, 26764>>, <<8067, 55723>>, <<23520, 52505>>
  >>

\* The element of a set of one element: a value computed once, where it is
\* used several times.
Only(S) == CHOOSE v \in S : TRUE

\* The message schedule w of a block with its next word.
ScheduleWord(w) ==
  LET t == Len(w) + 1 IN
    Only({Append(w, SumW(s1[1] + w[t - 7][1] + s0[1] + w[t - 16][1],
                         s1[2] + w[t - 7][2] + s0[2] + w[t - 16][2])) :
            s1 \in {SmallSigma1(w[t - 2])},
            s0 \in {SmallSigma0(w[t - 15])}})

\* The message schedule of a block of 16 words, up to n words: the words up
\* to the middle, and from these the rest.
RECURSIVE Schedule(_, _)
Schedule(w, n) ==
  IF Len(w) >= n THEN w
  ELSE IF Len(w) + 1 = n THEN ScheduleWord(w)
  ELSE Only({Schedule(half, n) : half \in {Schedule(w, (Len(w) + n) \div 2)}})

\* Round t over the working variables s = <<a, b, c, d, e, f, g, h>>.
Round(s, w, t) ==
  LET k == RoundConstants[t] IN
    Only({<<AddW(t1, t2), s[1], s[2], s[3], AddW(s[4], t1), s[5], s[6], s[7]>> :
            t1 \in {SumW(s[8][1] + s1[1] + ch[1] + k[1] + w[t][1],
                         s[8][2] + s1[2] + ch[2] + k[2] + w[t][2]) :
                      s1 \in {BigSigma1(s[5])},
                      ch \in {Ch(s[5], s[6], s[7])}},
            t2 \in {AddW(BigSigma0(s[1]), Maj(s[1], s[2], s[3]))}})

\* The rounds from..to in their order: those up to the middle, and on their
\* result the rest.
RECURSIVE Rounds(_, _, _, _)
Rounds(s, w, from, to) ==
  IF from > to \/ Len(s) # 8 THEN s
  ELSE IF from = to THEN Round(s, w, from)
  ELSE Only({Rounds(half, w, (from + to) \div 2 + 1, to) :
               half \in {Rounds(s, w, from, (from + to) \div 2)}})

\* The 16 words of a block of 64 bytes, big-endian.
RECURSIVE BlockWords(_, _)
BlockWords(bytes, i) ==
  IF i > Len(bytes) THEN <<>>
  ELSE <<<<bytes[i] * 256 + bytes[i + 1], bytes[i + 2] * 256 + bytes[i + 3]>>>>
         \o BlockWords(bytes, i + 4)

Compress(h, block) ==
  Only({<<AddW(h[1], s[1]), AddW(h[2], s[2]), AddW(h[3], s[3]), AddW(h[4], s[4]),
          AddW(h[5], s[5]), AddW(h[6], s[6]), AddW(h[7], s[7]), AddW(h[8], s[8])>> :
          s \in {Rounds(h, w, 1, 64) :
                   w \in {Schedule(words, 64) : words \in {BlockWords(block, 1)}}}})

RECURSIVE Zeros(_)
Zeros(n) == IF n <= 0 THEN <<>> ELSE <<0>> \o Zeros(n - 1)

\* The padding of a message of n bytes: 0x80, zeros up to 56 modulo 64, and
\* the length in bits as 8 bytes.
Padding(n) ==
  <<128>> \o Zeros((119 - (n % 64)) % 64)
    \o <<0, 0, 0, 0, ((n * 8) \div 16777216) % 256, ((n * 8) \div 65536) % 256,
         ((n * 8) \div 256) % 256, (n * 8) % 256>>

\* The hash h after the blocks of bytes.
RECURSIVE Blocks(_, _)
Blocks(h, bytes) ==
  IF bytes = <<>> \/ Len(h) # 8 THEN h
  ELSE Only({Blocks(next, rest) :
               next \in {Compress(h, block) : block \in {SubSeq(bytes, 1, 64)}},
               rest \in {SubSeq(bytes, 65, Len(bytes))}})

RECURSIVE WordBytes(_)
WordBytes(ws) ==
  IF ws = <<>> THEN <<>>
  ELSE <<Head(ws)[1] \div 256, Head(ws)[1] % 256, Head(ws)[2] \div 256, Head(ws)[2] % 256>>
         \o WordBytes(Tail(ws))

\* SHA-256 of a message that follows prefixLen bytes already hashed into h.
Sha256From(h, prefixLen, bytes) ==
  Only({WordBytes(hash) :
          hash \in {Blocks(h, padded) :
                      padded \in {bytes \o Padding(prefixLen + Len(bytes))}}})

Sha256(bytes) == Sha256From(InitialHash, 0, bytes)

RECURSIVE PadKey(_, _)
PadKey(bytes, pad) ==
  IF bytes = <<>> THEN <<>>
  ELSE <<XorBytes[Head(bytes) + 1][pad + 1]>> \o PadKey(Tail(bytes), pad)

\* The key of an HMAC as a block: hashed when longer than a block, and
\* filled with zeros.
HmacKeyBlock(key) ==
  Only({k \o Zeros(64 - Len(k)) : k \in {IF Len(key) > 64 THEN Sha256(key) ELSE key}})

\* The hashes after the inner and the outer padded key.
HmacKeyStates(key) ==
  Only({<<Compress(InitialHash, inner), Compress(InitialHash, outer)>> :
          inner \in {PadKey(HmacKeyBlock(key), 54)},
          outer \in {PadKey(HmacKeyBlock(key), 92)}})

\* HMAC-SHA256 from the states of its key: H(opad-key || H(ipad-key || msg)).
HmacFrom(states, msg) ==
  Only({Sha256From(outer, 64, inner) :
          outer \in {states[2]},
          inner \in {Sha256From(h, 64, bytes) : h \in {states[1]}, bytes \in {msg}}})

HmacSha256(key, msg) == HmacFrom(HmacKeyStates(key), msg)

\* Bytes of a SHA-256 digest.
DigestLen == 32

(***************************************************************************)
(* The secrets and the bodies of the runs below. The digests of these are  *)
(* computed once.                                                          *)
(***************************************************************************)
\* Secrets of the codec's runs: 'k' and 's3'.
CodecSecrets == {<<107>>, <<115, 51>>}

\* Bodies of the codec's runs: '', '{}', 'F' + e-acute, a lone surrogate, a
\* surrogate pair.
CodecBodies == {<<>>, <<123, 125>>, <<70, 233>>, <<55296>>, <<55357, 56832>>}

\* The payload bodies a delivery is started with (JSON.stringify(payload)):
\* '{"event":...}' abbreviated to 'c' (agent.completed) and 'f' (agent.failed).
DeliverBodies == {<<99>>, <<102>>}

\* The webhook secret of the n-th launch: crypto.randomBytes(32) as hex, a
\* fresh value per call ('k1', 'k2', ...).
generateWebhookSecret(n) == <<107, 48 + n>>

\* The id Cursor gives the n-th agent it creates ('a', 'b', ...).
CursorAgentId(n) == <<96 + n>>

\* The webhook secret on record for the job 'x': 'se'.
SeededSecret == <<115, 101>>

\* The text of a payload with all its fields, for a job and a status character.
PayloadText(jobId, statusChar) == <<115, jobId[1], statusChar, 116, 111, 103>>

\* Job ids named by the bodies of webhook requests: the jobs launched in a
\* run, the two seeded ones ('x', 'y') and one that has no record ('z').
WebhookJobIds == {CursorAgentId(n) : n \in 1..MaxLaunches} \cup {<<120>>, <<121>>, <<122>>}

\* The bodies of webhook requests: complete payloads with a terminal status
\* for every job; for job 'x' also the other statuses and payloads with one
\* field absent or with another event; for job 'y' a FINISHED payload
\* without target; the JSON text null; and '{'.
WebhookBodies ==
  {PayloadText(j, c) : j \in WebhookJobIds, c \in {70, 69}}
    \cup {PayloadText(<<120>>, c) : c \in {82, 67, 88, 90}}
    \cup {[PayloadText(<<120>>, 70) EXCEPT ![i] = 45] : i \in 1..6}
    \cup {[PayloadText(<<120>>, 69) EXCEPT ![6] = 45]}
    \cup {[PayloadText(<<121>>, 70) EXCEPT ![6] = 45]}
    \cup {[PayloadText(<<120>>, 70) EXCEPT ![1] = 120]}
    \cup {<<110>>, <<123>>}

\* The bodies that are sent with every signature value: a complete FINISHED
\* payload for each job, complete ERROR and RUNNING payloads for job 'x',
\* and a FINISHED payload without target for job 'x'.
SignedBodies ==
  {PayloadText(j, 70) : j \in WebhookJobIds}
    \cup {PayloadText(<<120>>, 69), PayloadText(<<120>>, 82),
          [PayloadText(<<120>>, 70) EXCEPT ![6] = 45]}

\* The secrets above, with the states of their HMAC keys.
KnownSecrets ==
  CodecSecrets \cup {SeededSecret} \cup {generateWebhookSecret(n) : n \in 1..MaxLaunches}

KnownKeyStates == [secret \in KnownSecrets |-> HmacKeyStates(Utf8(secret))]

\* The pairs of a secret and a body above, with their digests.
KnownPairs ==
  (CodecSecrets \X CodecBodies) \cup ({<<107>>} \X DeliverBodies)
    \cup ({SeededSecret} \X WebhookBodies)
    \cup ({generateWebhookSecret(1)} \X SignedBodies)

KnownDigests ==
  {<<pair, HmacFrom(KnownKeyStates[pair[1]], Utf8(pair[2]))>> : pair \in KnownPairs}

\* crypto.createHmac('sha256', secret).update(body, 'utf8').digest(): the
\* HMAC-SHA256, under the UTF-8 bytes of the secret, of the UTF-8 bytes of
\* the body.
createHmac(secret, body) ==
  IF <<secret, body>> \in KnownPairs
  THEN (CHOOSE known \in KnownDigests : known[1] = <<secret, body>>)[2]
  ELSE IF secret \in KnownSecrets THEN HmacFrom(KnownKeyStates[secret], Utf8(body))
  ELSE HmacSha256(Utf8(secret), Utf8(body))

HexChar(n) == IF n < 10 THEN 48 + n ELSE 87 + n

\* digest('hex'): lower-case hex digits, two per byte.
RECURSIVE ToHex(_)
ToHex(bytes) ==
  IF bytes = <<>> THEN <<>>
  ELSE <<HexChar(Head(bytes) \div 16), HexChar(Head(bytes) % 16)>> \o ToHex(Tail(bytes))

\* Value of a hex digit in either case, -1 for any other character. The
\* decoder reads the low 8 bits of a code unit.
Unhex(c) ==
  LET b == c % 256 IN
    IF b >= 48 /\ b <= 57 THEN b - 48
    ELSE IF b >= 97 /\ b <= 102 THEN b - 87
    ELSE IF b >= 65 /\ b <= 70 THEN b - 55
    ELSE -1

\* Buffer.from(str, 'hex'): decodes pairs of hex digits and stops at the
\* first pair that is not two hex digits; an odd last character is dropped.
RECURSIVE BufferFromHex(_)
BufferFromHex(s) ==
  IF Len(s) < 2 THEN <<>>
  ELSE IF Unhex(s[1]) < 0 \/ Unhex(s[2]) < 0 THEN <<>>
  ELSE <<Unhex(s[1]) * 16 + Unhex(s[2])>> \o BufferFromHex(Tail(Tail(s)))

\* crypto.timingSafeEqual: throws a RangeError when the lengths differ,
\* and otherwise tells whether the buffers are equal.
timingSafeEqualThrows(a, b) == Len(a) # Len(b)
timingSafeEqual(a, b) == a = b

\* The signing side: 'sha256=' + hex(HMAC(secret, body)).
generateWebhookSignature(secret, body) == Sha256Prefix \o ToHex(createHmac(secret, body))

\* A verifier that ignores the body it is given (mutant).
verifyWebhookSignature_IgnoresBody(secret, rawBody, signature) ==
  signature # Null /\ signature # <<>> /\ startsWith(signature, Sha256Prefix)

\* A verifier whose comparison is inverted (mutant).
verifyWebhookSignature_Inverted(secret, rawBody, signature) ==
  IF signature = Null \/ signature = <<>> \/ ~startsWith(signature, Sha256Prefix)
  THEN FALSE
  ELSE BufferFromHex(slice(signature, 7)) # createHmac(secret, rawBody)

\* The inbound verifier's check of a signature header.
verifyWebhookSignature(secret, rawBody, signature) ==
  IF signature = Null \/ signature = <<>> \/ ~startsWith(signature, Sha256Prefix)
  THEN FALSE
  ELSE LET providedSignature == slice(signature, 7)
           expectedSignature == ToHex(createHmac(secret, rawBody))
           provided == BufferFromHex(providedSignature)
           expected == BufferFromHex(expectedSignature)
       IN IF timingSafeEqualThrows(provided, expected) THEN FALSE
          ELSE timingSafeEqual(provided, expected)

\* The receiving example's check: no try/catch around timingSafeEqual, so a
\* length mismatch escapes as an exception, and so does the TypeError of
\* signature.startsWith when the signature is null. The result is "true",
\* "false" or "throws".
exampleVerifyWebhookSignature(payload, signature, secret) ==
  IF signature = Null THEN "throws"
  ELSE IF ~startsWith(signature, Sha256Prefix) THEN "false"
  ELSE LET expectedSignature == ToHex(createHmac(secret, payload))
           receivedSignature == slice(signature, 7)
           expected == BufferFromHex(expectedSignature)
           received == BufferFromHex(receivedSignature)
       IN IF timingSafeEqualThrows(expected, received) THEN "throws"
          ELSE IF timingSafeEqual(expected, received) THEN "true" ELSE "false"

(***************************************************************************)
(* Inputs of the codec: secrets, bodies, and one-bit mutations of a body   *)
(* (a string of 16-bit code units) and of a signature header (a string of  *)
(* bytes).                                                                 *)
(***************************************************************************)
BoolStr(b) == IF b THEN "true" ELSE "false"

\* c with bit k inverted.
FlipBit(c, k) == IF (c \div (2 ^ k)) % 2 = 1 THEN c - 2 ^ k ELSE c + 2 ^ k

\* s with bit k of its i-th element inverted.
FlipAt(s, i, k) == [s EXCEPT ![i] = FlipBit(s[i], k)]

\* The string has no lone surrogate: request.text() decodes the bytes of
\* the body as UTF-8, which yields no other string.
RECURSIVE IsWellFormed(_)
IsWellFormed(s) ==
  IF s = <<>> THEN TRUE
  ELSE IF IsHighSurrogate(Head(s))
  THEN Len(s) >= 2 /\ IsLowSurrogate(s[2]) /\ IsWellFormed(Tail(Tail(s)))
  ELSE ~IsLowSurrogate(Head(s)) /\ IsWellFormed(Tail(s))

\* The bits of a character of a header value, which is a string of bytes,
\* and of a code unit of a body.
HeaderBits == 0..7
BodyBits == 0..15

\* Malformed variants of a signature header sig: the bare digest without the
\* prefix, the empty string, the prefix alone, an upper-case prefix, a
\* non-hex remainder ('zz' before or after the digest), a remainder with an
\* odd trailing digit, one that is a byte short, one that is a byte long,
\* and the digest with 256 added to each of its code units.
MalformedSignatures(sig) ==
  LET hex == slice(sig, Len(Sha256Prefix)) IN
    << hex,
       <<>>,
       Sha256Prefix,
       <<83, 72, 65, 50, 53, 54, 61>> \o hex,
       Sha256Prefix \o <<122, 122>> \o hex,
       Sha256Prefix \o hex \o <<122, 122>>,
       Sha256Prefix \o hex \o <<97>>,
       Sha256Prefix \o SubSeq(hex, 1, Len(hex) - 2),
       Sha256Prefix \o hex \o <<48, 48>>,
       Sha256Prefix \o [j \in 1..Len(hex) |-> hex[j] + 256] >>

\* The one-bit mutations of a body that the handler can read from a
\* request: the body and its mutation are well-formed strings.
BodyFlips(b) ==
  {flip \in (1..Len(b)) \X BodyBits :
     IsWellFormed(b) /\ IsWellFormed(FlipAt(b, flip[1], flip[2]))}

\* The cases of a secret and a body: the signature of the signing side;
\* the malformed variants of it; the one-bit mutations of the body that
\* the handler can read from a request (the body and its mutation are
\* well-formed strings); the one-bit mutations of the signature header.
CodecCases(s, b) ==
  LET sig == generateWebhookSignature(s, b) IN
    {[kind |-> "signed", i |-> 0, k |-> 0, givenBody |-> b, givenSig |-> sig]}
    \cup {[kind |-> "malformed", i |-> i, k |-> 0, givenBody |-> b,
           givenSig |-> MalformedSignatures(sig)[i]] :
             i \in 1..Len(MalformedSignatures(sig))}
    \cup {[kind |-> "bodyflip", i |-> i, k |-> k, givenBody |-> FlipAt(b, i, k),
           givenSig |-> sig] : <<i, k>> \in BodyFlips(b)}
    \cup {[kind |-> "sigflip", i |-> i, k |-> k, givenBody |-> b,
           givenSig |-> FlipAt(sig, i, k)] : i \in 1..Len(sig), k \in HeaderBits}

CodecIdle ==
  [secret |-> <<>>, body |-> <<>>, kind |-> "idle", i |-> 0, k |-> 0,
   givenBody |-> <<>>, givenSig |-> <<>>, result |-> Pending, exampleResult |-> Pending]

CodecInputs ==
  UNION {{[secret |-> s, body |-> b, kind |-> c.kind, i |-> c.i, k |-> c.k,
           givenBody |-> c.givenBody, givenSig |-> c.givenSig,
           result |-> Pending, exampleResult |-> Pending] : c \in CodecCases(s, b)} :
         s \in CodecSecrets, b \in CodecBodies}

CodecInit == cx \in CodecInputs

\* The inbound verifier checks the given signature against the given body.
VerifyInbound ==
  /\ cx.kind # "idle"
  /\ cx.result = Pending
  /\ cx' = [cx EXCEPT !.result =
              BoolStr(verifyWebhookSignature(cx.secret, cx.givenBody, cx.givenSig))]
  /\ UNCHANGED <<sw, emailAgent, user, cursorAgentMapping, agentLaunchLog, cursorApi, http>>

\* The receiving example checks the same inputs.
VerifyExample ==
  /\ cx.kind # "idle"
  /\ cx.exampleResult = Pending
  /\ cx' = [cx EXCEPT !.exampleResult =
              exampleVerifyWebhookSignature(cx.givenBody, cx.givenSig, cx.secret)]
  /\ UNCHANGED <<sw, emailAgent, user, cursorAgentMapping, agentLaunchLog, cursorApi, http>>

(***************************************************************************)
(* Delivery engine: sendWebhook(webhookUrl, payload, secret?, maxRetries). *)
(* sw is the one delivery in progress: its position, its loop variable,    *)
(* and the trace of what it did (requests sent, backoff sleeps).           *)
(***************************************************************************)
\* Default of the maxRetries parameter.
DefaultMaxRetries == 3
\* backoffDelay's base and cap, in milliseconds.
BackoffBaseMs == 1000
BackoffCapMs == 10000

Min(a, b) == IF a < b THEN a ELSE b

\* A backoff that never doubles (mutant).
backoffDelay_Constant(attempt) == BackoffBaseMs

\* backoffDelay = (attempt) => Math.min(1000 * Math.pow(2, attempt), 10000)
backoffDelay(attempt) == Min(BackoffBaseMs * (2 ^ attempt), BackoffCapMs)

\* What one fetch can end in: a response with a status, a transport error
\* (fetch rejects), or the 15 s AbortSignal timeout (fetch rejects).
Response(status) == [kind |-> "response", status |-> status]
Outcomes ==
  {Response(st) : st \in {200, 299, 302, 400, 404, 499, 500}}
    \cup {[kind |-> "error", status |-> 0], [kind |-> "timeout", status |-> 0]}

\* response.ok
ResponseOk(o) == o.kind = "response" /\ o.status >= 200 /\ o.status <= 299

\* A classification that retries client errors too (mutant).
AttemptResult_RetriesClientErrors(o) ==
  IF ResponseOk(o) THEN "success" ELSE "throw"

\* A classification that takes every response for a success (mutant).
AttemptResult_AnyResponseSucceeds(o) ==
  IF o.kind = "response" THEN "success" ELSE "throw"

\* The try block of one attempt: "success" (return true), "client" (return
\* false, no retry) or "throw" (control passes to the catch block).
AttemptResult(o) ==
  IF o.kind # "response" THEN "throw"
  ELSE IF ResponseOk(o) THEN "success"
  ELSE IF o.status >= 400 /\ o.status < 500 THEN "client"
  ELSE "throw"

\* A catch block that never sees a last attempt (mutant).
CatchResult_OffByOne(attempt, maxRetries) ==
  IF attempt = maxRetries THEN "return" ELSE "sleep"

\* A catch block that rethrows after the last attempt (mutant).
CatchResult_Rethrows(attempt, maxRetries) ==
  IF attempt = maxRetries - 1 THEN "rethrow" ELSE "sleep"

\* The catch block: "return" (return false) on the last attempt, otherwise
\* "sleep" (wait backoffDelay(attempt), then loop).
CatchResult(attempt, maxRetries) ==
  IF attempt = maxRetries - 1 THEN "return" ELSE "sleep"

\* The secrets a delivery is started with: none, the empty string, 'k'.
DeliverSecrets == {Null, <<>>, <<107>>}

\* if (secret): undefined, null and '' are falsy.
Truthy(str) == str # Null /\ str # Undefined /\ str # <<>>

\* A delivery that signs its first attempt only (mutant).
RequestEvent_UnsignedRetries(attempt, secret, body, o) ==
  [type |-> "request", attempt |-> attempt + 1,
   signature |-> IF Truthy(secret) /\ attempt = 0
                 THEN generateWebhookSignature(secret, body) ELSE Null,
   body |-> body, kind |-> o.kind, status |-> o.status, ms |-> 0]

RequestEvent(attempt, secret, body, o) ==
  [type |-> "request", attempt |-> attempt + 1,
   signature |-> IF Truthy(secret) THEN generateWebhookSignature(secret, body) ELSE Null,
   body |-> body, kind |-> o.kind, status |-> o.status, ms |-> 0]

SleepEvent(ms) ==
  [type |-> "sleep", attempt |-> 0, signature |-> Null, body |-> <<>>,
   kind |-> "none", status |-> 0, ms |-> ms]

SendWebhookIdle ==
  [pc |-> "idle", arg |-> -1, maxRetries |-> 0, secret |-> Null, body |-> <<>>,
   attempt |-> 0, trace |-> <<>>, result |-> Pending, threw |-> FALSE]

\* The call: maxRetries is the argument, or the default when it is omitted
\* (arg = -1); the loop starts at attempt 0 and is skipped when
\* 0 < maxRetries is false, which returns false.
SendWebhookCall ==
  /\ sw.pc = "idle"
  /\ \E arg \in {-1} \cup (0..MaxRetriesBound), secret \in DeliverSecrets,
        body \in DeliverBodies :
       LET maxRetries == IF arg = -1 THEN DefaultMaxRetries ELSE arg IN
       sw' = [sw EXCEPT !.arg = arg, !.maxRetries = maxRetries, !.secret = secret,
                        !.body = body, !.attempt = 0,
                        !.pc = IF 0 < maxRetries THEN "attempt" ELSE "done",
                        !.result = IF 0 < maxRetries THEN Pending ELSE "false"]
  /\ UNCHANGED <<cx, emailAgent, user, cursorAgentMapping, agentLaunchLog, cursorApi, http>>

\* One iteration of the loop up to its return or its sleep.
SendWebhookAttempt ==
  /\ sw.pc = "attempt"
  /\ \E o \in Outcomes :
       LET sent == Append(sw.trace, RequestEvent(sw.attempt, sw.secret, sw.body, o))
           try == AttemptResult(o)
           catch == CatchResult(sw.attempt, sw.maxRetries)
       IN IF try = "success"
          THEN sw' = [sw EXCEPT !.trace = sent, !.pc = "done", !.result = "true"]
          ELSE IF try = "client"
          THEN sw' = [sw EXCEPT !.trace = sent, !.pc = "done", !.result = "false"]
          ELSE IF catch = "return"
          THEN sw' = [sw EXCEPT !.trace = sent, !.pc = "done", !.result = "false"]
          ELSE IF catch = "rethrow"
          THEN sw' = [sw EXCEPT !.trace = sent, !.pc = "done", !.threw = TRUE]
          ELSE sw' = [sw EXCEPT !.trace = Append(sent, SleepEvent(backoffDelay(sw.attempt))),
                                !.pc = "backoff"]
  /\ UNCHANGED <<cx, emailAgent, user, cursorAgentMapping, agentLaunchLog, cursorApi, http>>

\* The backoff timer fires: attempt++, and the loop condition is tested; the
\* return false after the loop is taken when it fails.
SendWebhookBackoff ==
  /\ sw.pc = "backoff"
  /\ sw' = [sw EXCEPT !.attempt = sw.attempt + 1,
                      !.pc = IF sw.attempt + 1 < sw.maxRetries THEN "attempt" ELSE "done",
                      !.result = IF sw.attempt + 1 < sw.maxRetries THEN Pending ELSE "false"]
  /\ UNCHANGED <<cx, emailAgent, user, cursorAgentMapping, agentLaunchLog, cursorApi, http>>

(***************************************************************************)
(* Database and the external Cursor API.                                   *)
(*   emailAgent          : email-agent id -> row of email_agent, for the   *)
(*                         rows there are                                  *)
(*   user                : user id -> row of user                          *)
(*   cursorAgentMapping  : rows of cursor_agent_mapping (the job registry; *)
(*                         cursor_agent_id is unique)                      *)
(*   agentLaunchLog      : rows of agent_launch_log, in insertion order    *)
(*   cursorApi           : the agents Cursor has created, each with the    *)
(*                         webhook url and secret of its launch request    *)
(*   http                : the exchanges counted, the handlers that are    *)
(*                         under way, and the last request with its answer *)
(* Ids of email agents and users are TLA+ strings ("" is none); API keys,  *)
(* job ids, email ids, secrets, addresses of senders, bodies and           *)
(* signatures are strings of code units (Null is null / undefined).        *)
(***************************************************************************)
AgentIds == {"ea1", "ea2"}

\* The id of the n-th inbound email ('e1', 'e2', ...).
InboundEmailId(n) == <<101, 48 + n>>

\* Rows of cursor_agent_mapping that exist before the first launch of a
\* run: job 'x' (email 'ex') with a webhook secret 'se' on record, job 'y'
\* (email 'ey') without.
SeededMappings ==
  {[cursorAgentId |-> <<120>>, emailAgentId |-> "ea1", originalEmailId |-> <<101, 120>>,
    emailAddress |-> "ea1@bg.inbound.new", webhookSecret |-> SeededSecret],
   [cursorAgentId |-> <<121>>, emailAgentId |-> "ea1", originalEmailId |-> <<101, 121>>,
    emailAddress |-> "ea1@bg.inbound.new", webhookSecret |-> Null]}

\* Sender texts of inbound emails: 'a@x', 'N <b@y>', 'c@z', 'b@y' after a
\* no-break space, and none (Null: the email has no from). The second
\* email agent gets mail from all of them, the others from the first and
\* from none.
Senders(configId) ==
  IF configId = "ea2"
  THEN {<<97, 64, 120>>, <<78, 32, 60, 98, 64, 121, 62>>, <<99, 64, 122>>,
        <<160, 98, 64, 121>>, Null}
  ELSE {<<97, 64, 120>>, Null}

\* Cursor API keys: 'k1', 'k2' and 'k3'.
KeyOne == <<107, 49>>
KeyTwo == <<107, 50>>
KeyThree == <<107, 51>>

\* The users, without a default Cursor API key.
Users == {"u1", "u2"}
InitUser == [u \in Users |-> [defaultCursorApiKey |-> Null]]

InitEmailAgent ==
  [id \in AgentIds |->
     IF id = "ea1"
     THEN [isActive |-> TRUE, userId |-> "u1", cursorApiKey |-> KeyOne,
           emailAddress |-> "ea1@bg.inbound.new",
           allowedDomains |-> <<>>, allowedEmails |-> <<>>,
           webhookSecret |-> Null, webhookUrl |-> Null]
     ELSE [isActive |-> TRUE, userId |-> "u2", cursorApiKey |-> Null,
           emailAddress |-> "ea2@bg.inbound.new",
           allowedDomains |-> <<<<64, 120>>>>, allowedEmails |-> <<<<98, 64, 121>>>>,
           webhookSecret |-> Null, webhookUrl |-> Null]]

\* The ids of the jobs Cursor can have created.
JobIds ==
  {CursorAgentId(n) :
     n \in 1..((IF MaxLaunches > MaxTracked THEN MaxLaunches ELSE MaxTracked) + MaxRequests)}

\* The exchanges so far: the number of launches, of status polls and of
\* webhook registrations, for each job the number of completion webhooks
\* the notifier has delivered for it and the user and metadata of its last
\* accepted registration (none: the empty sequence), a note of each update
\* of the launch log a poll has made or tried for a job listed as ERROR,
\* the launches, the requests, the polls, the registrations and the webhook
\* requests that are under way, and the last exchange.
HttpIdle ==
  [launches |-> 0, polls |-> 0, registrations |-> 0, requests |-> 0, jobs |-> 0,
   notified |-> [j \in JobIds |-> 0], registered |-> [j \in JobIds |-> <<>>],
   processed |-> {},
   inflight |-> {}, pending |-> {}, polling |-> {}, registering |-> {},
   receiving |-> {}, last |-> [route |-> "none"]]

(***************************************************************************)
(* Launch: POST /api/inbound/receive/[configId].                           *)
(***************************************************************************)
\* The white space and line terminators String.prototype.trim removes.
IsSpace(c) ==
  c \in {9, 10, 11, 12, 13, 32, 160, 5760, 8232, 8233, 8239, 8287, 12288, 65279}
          \cup (8192..8202)

\* String.prototype.trim
RECURSIVE trimStart(_)
trimStart(s) == IF s # <<>> /\ IsSpace(Head(s)) THEN trimStart(Tail(s)) ELSE s
RECURSIVE trimEnd(_)
trimEnd(s) ==
  IF s # <<>> /\ IsSpace(s[Len(s)]) THEN trimEnd(SubSeq(s, 1, Len(s) - 1)) ELSE s
trim(s) == trimEnd(trimStart(s))

\* String.prototype.endsWith
endsWith(s, p) == Len(s) >= Len(p) /\ SubSeq(s, Len(s) - Len(p) + 1, Len(s)) = p

\* Positions of c in s.
IndexesOf(s, c) == {i \in 1..Len(s) : s[i] = c}

SetMin(S) == CHOOSE x \in S : \A y \in S : x <= y

\* The match of /<([^>]+)>/ at a '<' in position i: the next '>' is at
\* least two positions further.
AngleMatchAt(s, i) ==
  /\ s[i] = 60
  /\ \E j \in IndexesOf(s, 62) : j > i
  /\ SetMin({j \in IndexesOf(s, 62) : j > i}) >= i + 2

\* extractEmailAddress (lib/utils): the text inside the first <...>, or the
\* whole text, trimmed.
extractEmailAddress(emailText) ==
  IF emailText = Null \/ emailText = <<>> THEN <<>>
  ELSE LET starts == {i \in 1..Len(emailText) : AngleMatchAt(emailText, i)} IN
    IF starts # {}
    THEN LET i == SetMin(starts)
             j == SetMin({j \in IndexesOf(emailText, 62) : j > i})
         IN trim(SubSeq(emailText, i + 1, j - 1))
    ELSE trim(emailText)

\* '@' + senderEmail.split('@')[1]; split yields undefined when the address
\* has no '@', and the concatenation is then '@undefined'.
SenderDomain(senderEmail) ==
  LET ats == IndexesOf(senderEmail, 64) IN
    IF ats = {} THEN <<64, 117, 110, 100, 101, 102, 105, 110, 101, 100>>
    ELSE LET first == SetMin(ats)
             rest == {j \in ats : j > first}
             last == IF rest = {} THEN Len(senderEmail) ELSE SetMin(rest) - 1
         IN <<64>> \o SubSeq(senderEmail, first + 1, last)

\* A check that lets every sender through (mutant).
isEmailAllowed_AllowsAll(senderEmailText, allowedDomains, allowedEmails) == TRUE

isEmailAllowed(senderEmailText, allowedDomains, allowedEmails) ==
  IF Len(allowedDomains) = 0 /\ Len(allowedEmails) = 0 THEN TRUE
  ELSE LET senderEmail == extractEmailAddress(senderEmailText) IN
    \/ \E i \in 1..Len(allowedEmails) : allowedEmails[i] = senderEmail
    \/ \E i \in 1..Len(allowedDomains) :
         \/ allowedDomains[i] = SenderDomain(senderEmail)
         \/ endsWith(senderEmail, allowedDomains[i])

\* A row of agent_launch_log as logAgentLaunch writes it.
LogRow(emailAgentId, userId, senderEmail, status, cursorAgentId) ==
  [emailAgentId |-> emailAgentId, userId |-> userId, senderEmail |-> senderEmail,
   status |-> status, cursorAgentId |-> cursorAgentId]

\* logAgentLaunch: inserts the row; a failing insert is logged and dropped.
logAgentLaunch(log, row, insertOk) == IF insertOk THEN Append(log, row) ELSE log

\* What the Cursor API answers to POST /v0/agents.
CursorAnswers == {"created", "rejected", "throws"}

LaunchResponse(n, configId, status, senderText, emailId, answer, cursorAgentId, secret) ==
  [route |-> "inbound-receive", launch |-> n, configId |-> configId, status |-> status,
   senderText |-> senderText, originalEmailId |-> emailId, answer |-> answer,
   cursorAgentId |-> cursorAgentId, launchSecret |-> secret]

\* The row createCursorAgent inserts into cursor_agent_mapping: the values
\* name no webhookSecret, so the column is null.
MappingRow(cursorAgentId, config, configId, originalEmailId) ==
  [cursorAgentId |-> cursorAgentId, emailAgentId |-> configId,
   originalEmailId |-> originalEmailId, emailAddress |-> config.emailAddress,
   webhookSecret |-> Null]

\* email.from?.text || 'unknown@example.com'
UnknownSender ==
  <<117, 110, 107, 110, 111, 119, 110, 64, 101, 120, 97, 109, 112, 108, 101, 46, 99, 111, 109>>
SenderEmailText(from) == IF Truthy(from) THEN from ELSE UnknownSender

\* A run of the handler that is suspended at an await: the launch's number,
\* the email agent as the select returned it, the sender, the original
\* email's id, the webhook secret generated for the launch, Cursor's answer
\* and the id of the job, the await the run is suspended at (pc), and the
\* launch-log status and the response status that the run has decided on.
Run(n, configId, config, senderText, originalEmailId, secret, pc, logStatus, status) ==
  [launch |-> n, configId |-> configId, config |-> config, senderText |-> senderText,
   originalEmailId |-> originalEmailId, secret |-> secret, answer |-> "none",
   cursorAgentId |-> Null, pc |-> pc, logStatus |-> logStatus, status |-> status]

\* The handler of an inbound email for the email agent configId, up to its
\* first write: the payload is parsed and checked, the email agent is
\* selected, and the sender and the Cursor API key are checked. A run that
\* goes on is suspended at the insert into the launch log (sender rejected,
\* no key), at the update of the email agent (the email has an id: a
\* webhook secret is generated) or at the request to Cursor.
InboundReceiveSelect ==
  /\ http.launches < MaxLaunches
  /\ LET n == http.launches + 1
         Answer(r) == [http EXCEPT !.launches = n, !.last = r]
         Suspend(run) == [http EXCEPT !.launches = n, !.inflight = @ \cup {run}]
     IN \E configId \in AgentIds \cup DOMAIN emailAgent \cup {"ea9"}, payloadKind \in {"valid", "invalid", "badjson"} :
        IF payloadKind # "valid"
        THEN \* request.json() throws (500) or isInboundWebhook fails (400)
          http' = Answer(LaunchResponse(n, configId,
                           IF payloadKind = "badjson" THEN 500 ELSE 400,
                           Null, Null, "none", Null, Null))
        ELSE IF configId \notin DOMAIN emailAgent \/ ~emailAgent[configId].isActive
        THEN http' = Answer(LaunchResponse(n, configId, 404, Null, Null, "none", Null, Null))
        ELSE \E from \in Senders(configId) :
          LET config == emailAgent[configId]
              senderText == SenderEmailText(from)
              defaultCursorApiKey == IF config.userId \in DOMAIN user
                                     THEN user[config.userId].defaultCursorApiKey ELSE Null
              cursorApiKey == IF Truthy(config.cursorApiKey) THEN config.cursorApiKey
                              ELSE defaultCursorApiKey
          IN IF ~isEmailAllowed(senderText, config.allowedDomains, config.allowedEmails)
             THEN http' = Suspend(Run(n, configId, config, senderText, Null, Null,
                                      "log", "rejected", 403))
             ELSE IF ~Truthy(cursorApiKey)
             THEN http' = Suspend(Run(n, configId, config, senderText, Null, Null,
                                      "log", "failed", 400))
             ELSE \E originalEmailId \in {Null, InboundEmailId(n)} :
               http' = Suspend(
                 IF Truthy(originalEmailId)
                 THEN Run(n, configId, config, senderText, originalEmailId,
                          generateWebhookSecret(n), "update", "failed", 500)
                 ELSE Run(n, configId, config, senderText, originalEmailId, Null,
                          "fetch", "failed", 500))
  /\ UNCHANGED <<cx, sw, emailAgent, user, cursorAgentMapping, agentLaunchLog, cursorApi>>

\* http with the suspended run replaced by its continuation.
Resume(run, next) == [http EXCEPT !.inflight = (@ \ {run}) \cup {next}]

\* createCursorAgent, the update of the email agent: the webhook secret and
\* the webhook url (.../api/cursor-webhooks/<originalEmailId>, written as
\* the email id it ends in) are stored on the email agent; a failing update
\* is logged and ignored.
InboundReceiveUpdate ==
  /\ \E run \in http.inflight, updateOk \in BOOLEAN :
       /\ run.pc = "update"
       /\ emailAgent' =
            IF updateOk /\ run.configId \in DOMAIN emailAgent
            THEN [emailAgent EXCEPT ![run.configId].webhookSecret = run.secret,
                                    ![run.configId].webhookUrl = run.originalEmailId]
            ELSE emailAgent
       /\ http' = Resume(run, [run EXCEPT !.pc = "fetch"])
  /\ UNCHANGED <<cx, sw, user, cursorAgentMapping, agentLaunchLog, cursorApi>>

\* createCursorAgent, the request to Cursor with the webhook url and secret
\* of the run: Cursor creates the job, or rejects the request, or the fetch
\* throws. Without a job the function returns null; with a job and an
\* original email id the run goes on to the insert of the mapping row.
InboundReceiveFetch ==
  /\ \E run \in http.inflight, answer \in CursorAnswers :
       /\ run.pc = "fetch"
       /\ LET id == CursorAgentId(http.jobs + 1) IN
            IF answer = "created"
            THEN
              /\ cursorApi' = cursorApi \cup {[id |-> id,
                                               webhookUrl |-> run.originalEmailId,
                                               webhookSecret |-> run.secret,
                                               status |-> "CREATING"]}
              /\ http' = [Resume(run, [run EXCEPT
                                         !.answer = answer, !.cursorAgentId = id,
                                         !.pc = IF Truthy(run.originalEmailId)
                                                THEN "insert" ELSE "log",
                                         !.logStatus = "success", !.status = 200])
                             EXCEPT !.jobs = @ + 1]
            ELSE
              /\ cursorApi' = cursorApi
              /\ http' = Resume(run, [run EXCEPT !.answer = answer, !.pc = "log"])
  /\ UNCHANGED <<cx, sw, emailAgent, user, cursorAgentMapping, agentLaunchLog>>

\* createCursorAgent, the insert of the mapping row; a failing insert is
\* logged and ignored.
InboundReceiveInsert ==
  /\ \E run \in http.inflight, insertOk \in BOOLEAN :
       /\ run.pc = "insert"
       /\ insertOk => run.configId \in DOMAIN emailAgent
       /\ cursorAgentMapping' =
            IF insertOk
            THEN cursorAgentMapping
                   \cup {MappingRow(run.cursorAgentId, run.config, run.configId,
                                    run.originalEmailId)}
            ELSE cursorAgentMapping
       /\ http' = Resume(run, [run EXCEPT !.pc = "log"])
  /\ UNCHANGED <<cx, sw, emailAgent, user, agentLaunchLog, cursorApi>>

\* logAgentLaunch and the response: the row is inserted into the launch log
\* and the handler answers.
InboundReceiveLog ==
  /\ \E run \in http.inflight, logOk \in BOOLEAN :
       /\ run.pc = "log"
       /\ logOk => run.configId \in DOMAIN emailAgent
       /\ agentLaunchLog' = logAgentLaunch(agentLaunchLog,
            LogRow(run.configId, run.config.userId, extractEmailAddress(run.senderText),
                   run.logStatus, run.cursorAgentId), logOk)
       /\ http' = [http EXCEPT
                     !.inflight = @ \ {run},
                     !.last = LaunchResponse(run.launch, run.configId, run.status,
                                             run.senderText, run.originalEmailId,
                                             run.answer, run.cursorAgentId, run.secret)]
  /\ UNCHANGED <<cx, sw, emailAgent, user, cursorAgentMapping, cursorApi>>

\* The handler: its runs advance from await to await, and the steps of
\* other requests fall between them.
InboundReceivePOST ==
  \/ InboundReceiveSelect
  \/ InboundReceiveUpdate
  \/ InboundReceiveFetch
  \/ InboundReceiveInsert
  \/ InboundReceiveLog

(***************************************************************************)
(* Inbound verifier: POST /api/cursor-webhooks/[emailId].                  *)
(* A request body is a text of six characters, one per field of the        *)
(* Cursor payload, in the order event, id, status, timestamp, source,      *)
(* target; '-' is an absent field. Any other text is not JSON, except 'n', *)
(* the JSON text null.                                                     *)
(***************************************************************************)
EventOfChar(c) == IF c = 115 THEN "statusChange" ELSE IF c = 120 THEN "other" ELSE ""
StatusOfChar(c) ==
  IF c = 70 THEN "FINISHED" ELSE IF c = 69 THEN "ERROR" ELSE IF c = 82 THEN "RUNNING"
  ELSE IF c = 67 THEN "CREATING" ELSE IF c = 88 THEN "EXPIRED"
  ELSE IF c = 90 THEN "BOGUS" ELSE ""

IsPayloadText(raw) ==
  /\ Len(raw) = 6
  /\ raw[1] \in {115, 120, 45}
  /\ raw[2] \in (97..122) \cup {45}
  /\ raw[3] \in {70, 69, 82, 67, 88, 90, 45}
  /\ raw[4] \in {116, 45}
  /\ raw[5] \in {111, 45}
  /\ raw[6] \in {103, 45}

\* JSON.parse(rawBody): kind is "throws" (not JSON), "null" or "object".
JSONparse(raw) ==
  IF raw = <<110>>
  THEN [kind |-> "null", event |-> "", id |-> Null, status |-> "", timestamp |-> FALSE,
        source |-> FALSE, target |-> FALSE]
  ELSE IF ~IsPayloadText(raw)
  THEN [kind |-> "throws", event |-> "", id |-> Null, status |-> "", timestamp |-> FALSE,
        source |-> FALSE, target |-> FALSE]
  ELSE [kind |-> "object", event |-> EventOfChar(raw[1]),
        id |-> IF raw[2] = 45 THEN Null ELSE <<raw[2]>>,
        status |-> StatusOfChar(raw[3]), timestamp |-> raw[4] = 116,
        source |-> raw[5] = 111, target |-> raw[6] = 103]

\* A generateReplyContent that throws for every payload (mutant).
generateReplyContentThrows_Always(payload) == TRUE

\* generateReplyContent reads target.prUrl (FINISHED) and source.repository
\* (FINISHED, ERROR): it throws a TypeError when that object is absent.
generateReplyContentThrows(payload) ==
  \/ payload.status = "FINISHED" /\ (~payload.target \/ ~payload.source)
  \/ payload.status = "ERROR" /\ ~payload.source

\* A lookup that forgets its where clause (mutant).
MappingResult_IgnoresId(id) == cursorAgentMapping

\* db.select(...).from(cursorAgentMapping).where(eq(cursorAgentId, id)).limit(1):
\* the rows the lookup by cursorAgentId selects.
MappingResult(id) == {m \in cursorAgentMapping : m.cursorAgentId = id}

CursorUserAgent == "Cursor-Agent-Webhook/1.0"

\* The steps of the handler up to the lookup of the job's record: the
\* checks of the headers, the parse of the body and the checks of the
\* payload. The result is the status of an early answer, or 0 when the
\* request goes on to the lookup.
EarlyAnswer(userAgent, eventType, rawBody) ==
  LET payload == JSONparse(rawBody) IN
    IF userAgent = "" \/ userAgent # CursorUserAgent THEN 401
    ELSE IF eventType = "" \/ eventType # "statusChange" THEN 400
    ELSE IF payload.kind = "throws" THEN 400
    ELSE IF payload.kind = "null" THEN 500
    ELSE IF payload.event = "" \/ ~Truthy(payload.id) \/ payload.status = ""
            \/ ~payload.timestamp THEN 400
    ELSE IF payload.event # "statusChange" THEN 400
    ELSE IF payload.status \notin {"FINISHED", "ERROR"} THEN 400
    ELSE 0

\* A strict signature check: 401 also when the signature or the secret on
\* record is missing (mutant).
SignatureAnswer_RequiresSignature(signature, webhookSecret, rawBody) ==
  IF Truthy(signature) /\ Truthy(webhookSecret)
     /\ verifyWebhookSignature(webhookSecret, rawBody, signature)
  THEN 0 ELSE 401

\* The signature check: 401 when a signature is given, a secret is on
\* record and the signature does not verify; otherwise the request is
\* accepted (0), with a warning when the signature or the secret is missing.
SignatureAnswer(signature, webhookSecret, rawBody) ==
  IF Truthy(signature)
  THEN IF Truthy(webhookSecret)
       THEN IF verifyWebhookSignature(webhookSecret, rawBody, signature) THEN 0 ELSE 401
       ELSE 0
  ELSE 0

\* Values of the X-Webhook-Signature header for a body: absent, empty, 'x',
\* the signature of the body under the seeded secret, that signature with
\* the lowest bit of its last character inverted, and the signature of the
\* body under the secret of the first launch.
WebhookSignatures(rawBody) ==
  {Null, <<>>, <<120>>,
   generateWebhookSignature(SeededSecret, rawBody),
   FlipAt(generateWebhookSignature(SeededSecret, rawBody), 7 + 2 * DigestLen, 0),
   generateWebhookSignature(generateWebhookSecret(1), rawBody)}

\* Header pairs (User-Agent, X-Webhook-Event); "" is an absent header.
GoodHeaders == <<CursorUserAgent, "statusChange">>
BadHeaders ==
  {<<"curl/8.0", "statusChange">>, <<"", "statusChange">>,
   <<CursorUserAgent, "agentCreated">>, <<CursorUserAgent, "">>}

\* The requests. Under the headers Cursor sends: the bodies above with
\* every signature value, and every other body unsigned and with a
\* signature that does not verify. Under each other header pair: a complete
\* FINISHED payload for job 'x' and the text '{', unsigned and signed.
WebhookRequests ==
  {[headers |-> GoodHeaders, rawBody |-> b, signature |-> g] :
     <<b, g>> \in UNION {{<<b, g>> : g \in WebhookSignatures(b)} : b \in SignedBodies}}
    \cup {[headers |-> GoodHeaders, rawBody |-> b, signature |-> g] :
            <<b, g>> \in UNION {{<<b, Null>>,
                                 <<b, FlipAt(generateWebhookSignature(SeededSecret, b),
                                             7 + 2 * DigestLen, 0)>>} :
                                  b \in WebhookBodies \ SignedBodies}}
    \cup {[headers |-> h, rawBody |-> b, signature |-> g] :
            h \in BadHeaders,
            <<b, g>> \in UNION {{<<b, Null>>, <<b, generateWebhookSignature(SeededSecret, b)>>} :
                                  b \in {PayloadText(<<120>>, 70), <<123>>}}}

\* What inbound.email.sent.reply does: returns data, returns an error, or throws.
ReplyOutcomes == {"data", "error", "throws"}

\* Counts over the earlier deliveries of a run of consecutive deliveries of
\* one request: none for a request that is delivered for the first time.
NoPrior == [delivery |-> 0, replies |-> 0, unconfigured |-> 0, refused |-> 0]

\* The record of a request and its answer. records are the rows of
\* cursor_agent_mapping when the handler looked the job up (when it
\* answered, for a request that was answered before the lookup). replyTo
\* and replyFrom are the arguments of the reply-send call, Null when it was
\* not invoked; secretOnRecord is the webhook secret of the mapping row
\* found, Null when there is none or no row was found; keyMissing is
\* whether the handler found no INBOUND_API_KEY; reply is what reply-send
\* did. delivery counts the deliveries of the run, this one included;
\* replies counts the calls of reply-send over them, unconfigured those of
\* them that found no INBOUND_API_KEY, and refused those that were
\* answered with a 4xx status.
WebhookExchange(rcv, records, status, replyTo, replyFrom, secretOnRecord, keyMissing, reply) ==
  [route |-> "cursor-webhooks", pathId |-> rcv.pathId, records |-> records,
   userAgent |-> rcv.req.headers[1], eventType |-> rcv.req.headers[2],
   signature |-> rcv.req.signature, rawBody |-> rcv.req.rawBody,
   status |-> status, replyInvoked |-> replyTo # Null, replyTo |-> replyTo,
   replyFrom |-> replyFrom, secretOnRecord |-> secretOnRecord,
   keyMissing |-> keyMissing, reply |-> reply,
   delivery |-> rcv.prior.delivery + 1,
   replies |-> rcv.prior.replies + (IF replyTo # Null THEN 1 ELSE 0),
   unconfigured |-> rcv.prior.unconfigured + (IF keyMissing THEN 1 ELSE 0),
   refused |-> rcv.prior.refused + (IF status \in 400..499 THEN 1 ELSE 0)]

\* A webhook request that is suspended at an await: the emailId of its path
\* (the handler logs it and uses it for nothing else), the request, the
\* await it is at (pc), and, once the job's record is found, the rows the
\* lookup met and the fields of the record that the handler keeps. The
\* handler keeps no state of its own: prior only feeds the counts of the
\* exchange record.
Webhook(pathId, req, prior) ==
  [pathId |-> pathId, req |-> req, prior |-> prior, pc |-> "select", records |-> {},
   replyTo |-> Null, replyFrom |-> Null, secretOnRecord |-> Null]

\* The handler from the arrival of a request to the lookup of the job's
\* record: the headers are checked, the body is read and parsed, and the
\* payload is checked. The handler answers, or goes on to the lookup; then
\* no exchange is the last one until the request is answered.
ReceiveCursorWebhook(pathId, req, prior) ==
  LET rcv == Webhook(pathId, req, prior)
      early == EarlyAnswer(req.headers[1], req.headers[2], req.rawBody)
  IN IF early # 0
     THEN http' = [http EXCEPT !.last = WebhookExchange(rcv, cursorAgentMapping, early, Null,
                                                        Null, Null, FALSE, "none")]
     ELSE http' = [http EXCEPT !.receiving = @ \cup {rcv}, !.last = [route |-> "none"]]

\* A webhook request arrives.
CursorWebhookPOSTReceive ==
  /\ Cardinality(http.receiving) < MaxReceiving
  /\ \E req \in WebhookRequests, pathId \in {<<101, 120>>} :
       ReceiveCursorWebhook(pathId, req, NoPrior)
  /\ UNCHANGED <<cx, sw, emailAgent, user, cursorAgentMapping, agentLaunchLog, cursorApi>>

\* The lookup of the job's record by the id of the payload, and what
\* follows up to the reply-send call: 404 when there is no record, the
\* signature check, the INBOUND_API_KEY of the environment, and the text
\* of the reply.
CursorWebhookPOSTSelect ==
  /\ \E rcv \in http.receiving, inboundApiKey \in BOOLEAN :
       /\ rcv.pc = "select"
       /\ LET payload == JSONparse(rcv.req.rawBody)
              found == MappingResult(payload.id)
              mapping == CHOOSE m \in found : TRUE
              Answer(status, secretOnRecord, keyMissing) ==
                [http EXCEPT !.receiving = @ \ {rcv},
                             !.last = WebhookExchange(rcv, cursorAgentMapping, status, Null,
                                                      Null, secretOnRecord, keyMissing, "none")]
          IN IF found = {}
             THEN http' = Answer(404, Null, FALSE)
             ELSE \E refusal \in {SignatureAnswer(rcv.req.signature, mapping.webhookSecret,
                                                  rcv.req.rawBody)} :
             IF refusal # 0
             THEN http' = Answer(refusal, mapping.webhookSecret, FALSE)
             ELSE IF ~inboundApiKey
             THEN \* INBOUND_API_KEY is not configured
               http' = Answer(500, mapping.webhookSecret, TRUE)
             ELSE IF generateReplyContentThrows(payload)
             THEN http' = Answer(500, mapping.webhookSecret, FALSE)
             ELSE http' = [http EXCEPT
                             !.receiving = (@ \ {rcv}) \cup
                               {[rcv EXCEPT !.pc = "reply", !.records = cursorAgentMapping,
                                            !.replyTo = mapping.originalEmailId,
                                            !.replyFrom = mapping.emailAddress,
                                            !.secretOnRecord = mapping.webhookSecret]}]
  /\ UNCHANGED <<cx, sw, emailAgent, user, cursorAgentMapping, agentLaunchLog, cursorApi>>

\* inbound.email.sent.reply returns, and the handler answers: 200 when the
\* call returned data, 500 when it returned an error or threw.
CursorWebhookPOSTReply ==
  /\ \E rcv \in http.receiving, reply \in ReplyOutcomes :
       /\ rcv.pc = "reply"
       /\ http' = [http EXCEPT
                     !.receiving = @ \ {rcv},
                     !.last = WebhookExchange(rcv, rcv.records,
                                              IF reply = "data" THEN 200 ELSE 500,
                                              rcv.replyTo, rcv.replyFrom, rcv.secretOnRecord,
                                              FALSE, reply)]
  /\ UNCHANGED <<cx, sw, emailAgent, user, cursorAgentMapping, agentLaunchLog, cursorApi>>

\* The handler of a Cursor status-change webhook: its requests advance
\* from await to await, and the steps of other requests fall between them.
CursorWebhookPOST ==
  \/ CursorWebhookPOSTReceive
  \/ CursorWebhookPOSTSelect
  \/ CursorWebhookPOSTReply

\* The request that was answered last is delivered again, unchanged.
CursorWebhookReplay ==
  /\ http.last.route = "cursor-webhooks"
  /\ http.last.delivery < MaxReplays
  /\ http.receiving = {}
  /\ \E pathId \in {http.last.pathId},
        req \in {[headers |-> <<http.last.userAgent, http.last.eventType>>,
                  rawBody |-> http.last.rawBody, signature |-> http.last.signature]},
        prior \in {[delivery |-> http.last.delivery, replies |-> http.last.replies,
                    unconfigured |-> http.last.unconfigured,
                    refused |-> http.last.refused]} :
       ReceiveCursorWebhook(pathId, req, prior)
  /\ UNCHANGED <<cx, sw, emailAgent, user, cursorAgentMapping, agentLaunchLog, cursorApi>>

(***************************************************************************)
(* The agents API (/api/cursor-agents): status polls that notify completed *)
(* jobs, and webhook registration. Cursor's jobs change status on their    *)
(* own.                                                                    *)
(***************************************************************************)
\* The status values of a Cursor agent.
AgentStatuses == {"CREATING", "RUNNING", "FINISHED", "ERROR", "EXPIRED"}

\* The statuses a job can take next: it starts running, it finishes or
\* fails, and in the end it expires.
NextStatuses(status) ==
  IF status = "CREATING" THEN {"RUNNING", "ERROR"}
  ELSE IF status = "RUNNING" THEN {"FINISHED", "ERROR", "EXPIRED"}
  ELSE IF status \in {"FINISHED", "ERROR"} THEN {"EXPIRED"}
  ELSE {}

\* Cursor moves one of its jobs to its next status.
CursorJobProgress ==
  /\ \E job \in cursorApi, status \in AgentStatuses :
       /\ status \in NextStatuses(job.status)
       /\ cursorApi' = (cursorApi \ {job}) \cup {[job EXCEPT !.status = status]}
  /\ UNCHANGED <<cx, sw, emailAgent, user, cursorAgentMapping, agentLaunchLog, http>>

\* The session of a request: none, or one of the users.
Sessions == {"", "u1", "u2"}

\* where(and(eq(emailAgent.id, id), eq(emailAgent.userId, session.user.id)))
\* selects a row.
Owns(userId, id) == id \in DOMAIN emailAgent /\ emailAgent[id].userId = userId

\* userResult[0]?.defaultCursorApiKey over the select of the user's row.
UserDefaultKey(userId) ==
  IF userId \in DOMAIN user THEN user[userId].defaultCursorApiKey ELSE Undefined

\* agents.find(agent => agent.cursorApiKey)?.cursorApiKey over the select
\* of the user's email agents. The select names no order, so the first row
\* with a key is any of the user's rows with a key.
EmailAgentKeyResults(userId) ==
  LET own == {a \in DOMAIN emailAgent : emailAgent[a].userId = userId}
      keyed == {a \in own : Truthy(emailAgent[a].cursorApiKey)}
  IN IF keyed # {} THEN {emailAgent[a].cursorApiKey : a \in keyed} ELSE {Undefined}

\* agentApiKey || userDefaultKey
ApiKey(agentApiKey, userDefaultKey) ==
  IF Truthy(agentApiKey) THEN agentApiKey ELSE userDefaultKey

\* The two selects of Promise.all run side by side, and either can be the
\* first the database answers. The results of the first: the await that is
\* left (pc) and the key read so far.
FirstKeyResults(userId) ==
  {[pc |-> "agents", apiKey |-> UserDefaultKey(userId)]}
    \cup {[pc |-> "user", apiKey |-> key] : key \in EmailAgentKeyResults(userId)}

\* The results of the second select for a handler that waits for it: the
\* API key the handler goes on with.
SecondKeyResults(pc, userId, apiKey) ==
  IF pc = "agents"
  THEN {ApiKey(key, apiKey) : key \in EmailAgentKeyResults(userId)}
  ELSE {ApiKey(apiKey, UserDefaultKey(userId))}

\* The metadata object of a tracker and of a webhook payload; a field that
\* is undefined is Null ("" for emailAgentId). The email subject is left
\* out of the model.
Metadata(emailAgentId, originalEmailId, senderEmail) ==
  [emailAgentId |-> emailAgentId, originalEmailId |-> originalEmailId,
   senderEmail |-> senderEmail]

\* webhookSecret: t.webhookSecret || undefined
SecretOrUndefined(secret) == IF Truthy(secret) THEN secret ELSE Undefined

\* The tracker GET builds from a row of the launch log joined with its
\* email agent: the job is assumed to have been running.
TrackerOf(row) ==
  [agentId |-> row.cursorAgentId, emailAgentId |-> row.emailAgentId,
   lastStatus |-> "RUNNING",
   webhookUrl |-> emailAgent[row.emailAgentId].webhookUrl,
   webhookSecret |-> SecretOrUndefined(emailAgent[row.emailAgentId].webhookSecret),
   metadata |-> Metadata(row.emailAgentId, Null, row.senderEmail)]

\* The rows GET builds a tracker from: the user's launch log rows with
\* status 'success', joined with their email agent, that have an agent id
\* and a webhook url.
IsTracked(row, userId) ==
  /\ row.userId = userId
  /\ row.status = "success"
  /\ row.emailAgentId \in DOMAIN emailAgent
  /\ Truthy(row.cursorAgentId)
  /\ Truthy(emailAgent[row.emailAgentId].webhookUrl)

\* The orders in which a select without ORDER BY can return the rows S.
Orderings(S) ==
  {order \in [1..Cardinality(S) -> S] :
     \A i, j \in 1..Cardinality(S) : order[i] = order[j] => i = j}

\* The tracker lists GET can build from the launch log: one tracker for
\* each tracked row, in any order of the rows.
AgentTrackerResults(log, userId) ==
  LET tracked == {i \in 1..Len(log) : IsTracked(log[i], userId)}
  IN {[k \in 1..Cardinality(tracked) |-> TrackerOf(log[order[k]])] :
        order \in Orderings(tracked)}

\* A notifier that sends for every tracked job it finds, whatever its
\* status (mutant).
IsCompletion_AnyStatus(lastStatus, currentStatus) == TRUE

\* The test of checkAndNotifyAgentCompletion: the job was running and is
\* now finished or failed.
IsCompletion(lastStatus, currentStatus) ==
  /\ lastStatus \in {"RUNNING", "CREATING"}
  /\ currentStatus \in {"FINISHED", "ERROR"}

\* A webhook the notifier handed to sendWebhook, and sendWebhook's result:
\* the event, the agent's id and status, whether agent.error is set, and
\* the metadata of the payload.
Delivery(agentId, status, webhookUrl, secret, metadata, sent) ==
  [agentId |-> agentId, status |-> status,
   event |-> IF status = "FINISHED" THEN "agent.completed" ELSE "agent.failed",
   error |-> status = "ERROR", metadata |-> metadata,
   webhookUrl |-> webhookUrl, secret |-> secret, sent |-> sent]

\* A poll that leaves the launch log as it is (mutant).
UpdateLaunchLog_Skipped(log, agentId, emailAgentId, status) == log

\* An update that writes 'success' whatever the job's status (mutant).
UpdateLaunchLog_AlwaysSuccess(log, agentId, emailAgentId, status) ==
  [i \in 1..Len(log) |->
     IF log[i].cursorAgentId = agentId /\ log[i].emailAgentId = emailAgentId
     THEN [log[i] EXCEPT !.status = "success"]
     ELSE log[i]]

\* db.update(agentLaunchLog).set({status}).where(cursorAgentId = agentId and
\* emailAgentId = emailAgentId): 'success' for FINISHED, 'failed' for ERROR.
UpdateLaunchLog(log, agentId, emailAgentId, status) ==
  [i \in 1..Len(log) |->
     IF log[i].cursorAgentId = agentId /\ log[i].emailAgentId = emailAgentId
     THEN [log[i] EXCEPT !.status = IF status = "FINISHED" THEN "success" ELSE "failed"]
     ELSE log[i]]

\* What Cursor does with GET /v0/me and GET /v0/agents: it answers 200, 401
\* or another error status, or the fetch throws.
MeAnswers == {"ok", "401", "error", "throws"}
ListAnswers == {"ok", "401", "error", "throws"}

\* The ids of Cursor's jobs that are RUNNING or CREATING.
ActiveAgents == {job.id : job \in {j \in cursorApi : j.status \in {"RUNNING", "CREATING"}}}

\* The entries of Cursor's list of agents for the ids: id and status.
CurrentAgents(ids) ==
  {[id |-> job.id, status |-> job.status] : job \in {j \in cursorApi : j.id \in ids}}

\* The ids of the trackers.
TrackedIds(trackers) == {trackers[k].agentId : k \in 1..Len(trackers)}

\* currentAgents.find(a => a.id === agentId).status
StatusIn(currentAgents, agentId) ==
  (CHOOSE job \in currentAgents : job.id = agentId).status

\* A status poll that is suspended at an await: its number, its session's
\* user, the API key, the await it is at (pc), the active agents of
\* Cursor's answer, the trackers, Cursor's answer to the notifier, the
\* tracker the notifier is at (i), the webhooks handed to sendWebhook so
\* far, whether the notifier's catch ran, and the answer of a poll that
\* returns.
Poll(n, userId, apiKey) ==
  [poll |-> n, user |-> userId, apiKey |-> apiKey, pc |-> "me", activeAgents |-> {},
   trackers |-> <<>>, currentAgents |-> {}, i |-> 1, deliveries |-> <<>>,
   threw |-> FALSE, status |-> 200, error |-> ""]

\* The poll returns its answer.
ReturnPoll(poll, status, error) ==
  [poll EXCEPT !.pc = "return", !.status = status, !.error = error]

\* The answer of a status poll.
PollResponse(poll) ==
  [route |-> "cursor-agents-get", poll |-> poll.poll, user |-> poll.user,
   status |-> poll.status, activeAgents |-> poll.activeAgents, error |-> poll.error,
   deliveries |-> poll.deliveries, checkThrew |-> poll.threw]

\* http after a step of the poll: the poll is suspended at its next await,
\* or it has returned and its answer is the last exchange.
ProceedPoll(poll, next) ==
  IF next.pc = "return"
  THEN [http EXCEPT !.polling = @ \ {poll}, !.last = PollResponse(next)]
  ELSE [http EXCEPT !.polling = (@ \ {poll}) \cup {next}]

\* The loop of checkAndNotifyAgentCompletion from the tracker `from` on, up
\* to its next await: the first tracker whose job is in Cursor's answer and
\* has completed (Len + 1: there is none).
RECURSIVE NextCompleted(_, _, _)
NextCompleted(trackers, currentAgents, from) ==
  IF from > Len(trackers) THEN from
  ELSE IF \E job \in currentAgents :
            /\ job.id = trackers[from].agentId
            /\ IsCompletion(trackers[from].lastStatus, job.status)
  THEN from
  ELSE NextCompleted(trackers, currentAgents, from + 1)

\* The poll goes on with the loop: it is suspended in sendWebhook for the
\* next completed job (every tracker has a webhook url), or the loop is
\* over and GET answers with the active agents.
ContinuePoll(poll, from) ==
  IF NextCompleted(poll.trackers, poll.currentAgents, from) > Len(poll.trackers)
  THEN ReturnPoll(poll, 200, "")
  ELSE [poll EXCEPT !.i = NextCompleted(poll.trackers, poll.currentAgents, from),
                    !.pc = "send"]

\* A notifier that leaves the loop when sendWebhook could not deliver
\* (mutant).
AfterSendWebhook_StopsOnFailedSend(poll, delivery) ==
  IF delivery.sent
  THEN [poll EXCEPT !.deliveries = Append(@, delivery), !.pc = "update"]
  ELSE ReturnPoll([poll EXCEPT !.deliveries = Append(@, delivery)], 200, "")

\* The notifier after sendWebhook has returned: the result is dropped, and
\* the update of the launch log is next (every tracker has an email agent
\* id).
AfterSendWebhook(poll, delivery) ==
  [poll EXCEPT !.deliveries = Append(@, delivery), !.pc = "update"]

\* The notes of the updates for ERROR jobs after a write of 'success' to
\* the rows of the job and the email agent, or the insert of such a row:
\* the rows no longer all read 'failed'.
Rewritten(processed, agentId, emailAgentId) ==
  {IF e.agentId = agentId /\ e.emailAgentId = emailAgentId
   THEN [e EXCEPT !.failed = FALSE] ELSE e : e \in processed}

\* The notes after the update of a poll for the tracker, whose job Cursor
\* listed in the status: an update for an ERROR job is noted with the
\* number of polls started so far and with whether it left the rows
\* 'failed' (it did not throw); an update for a FINISHED job writes
\* 'success'.
NoteUpdate(processed, tracker, status, polls, updateOk) ==
  IF status = "ERROR"
  THEN processed \cup {[agentId |-> tracker.agentId,
                         emailAgentId |-> tracker.emailAgentId,
                         upto |-> polls, failed |-> updateOk]}
  ELSE IF updateOk THEN Rewritten(processed, tracker.agentId, tracker.emailAgentId)
  ELSE processed

\* GET /api/cursor-agents, up to the first answer of the database, while
\* fewer than maxPolls polls have started: without a session the handler
\* answers 401; the selects of the user's default key and of the user's
\* email agents are sent, and one of them is answered.
CursorAgentsGETStart(maxPolls) ==
  /\ http.polls < maxPolls
  /\ \E userId \in Sessions :
       LET n == http.polls + 1 IN
         IF userId = ""
         THEN http' = [ProceedPoll(Poll(n, userId, Null),
                                   ReturnPoll(Poll(n, userId, Null), 401, "Unauthorized"))
                         EXCEPT !.polls = n]
         ELSE \E first \in FirstKeyResults(userId) :
           http' = [http EXCEPT !.polls = n,
                                !.polling = @ \cup {[Poll(n, userId, first.apiKey)
                                                       EXCEPT !.pc = first.pc]}]
  /\ UNCHANGED <<cx, sw, emailAgent, user, cursorAgentMapping, agentLaunchLog, cursorApi>>

CursorAgentsGETSelect == CursorAgentsGETStart(MaxPolls)

\* GET, the second answer of the database, up to the request to /v0/me:
\* without a key the answer is an empty list.
CursorAgentsGETKeys ==
  /\ \E poll \in http.polling :
       /\ poll.pc \in {"agents", "user"}
       /\ \E apiKey \in SecondKeyResults(poll.pc, poll.user, poll.apiKey) :
            http' = ProceedPoll(poll,
                      IF Truthy(apiKey) THEN [poll EXCEPT !.apiKey = apiKey, !.pc = "me"]
                      ELSE ReturnPoll([poll EXCEPT !.apiKey = apiKey], 200, ""))
  /\ UNCHANGED <<cx, sw, emailAgent, user, cursorAgentMapping, agentLaunchLog, cursorApi>>

\* GET, the request to /v0/me: a 401 is answered with an empty list and an
\* error; any other answer, and a fetch that throws, lets the handler go on.
CursorAgentsGETMe ==
  /\ \E poll \in http.polling, me \in MeAnswers :
       /\ poll.pc = "me"
       /\ http' = ProceedPoll(poll,
                    IF me = "401"
                    THEN ReturnPoll(poll, 200, "Invalid or expired Cursor API key")
                    ELSE [poll EXCEPT !.pc = "list"])
  /\ UNCHANGED <<cx, sw, emailAgent, user, cursorAgentMapping, agentLaunchLog, cursorApi>>

\* GET, the request to /v0/agents: a fetch that throws is answered with
\* 500, an error status with an empty list and an error that tells 401 from
\* the others; from Cursor's list the handler keeps the agents that are
\* RUNNING or CREATING.
CursorAgentsGETList ==
  /\ \E poll \in http.polling, list \in ListAnswers :
       /\ poll.pc = "list"
       /\ http' = ProceedPoll(poll,
                    IF list = "throws" THEN ReturnPoll(poll, 500, "Internal server error")
                    ELSE IF list = "401"
                    THEN ReturnPoll(poll, 200, "API key authentication failed")
                    ELSE IF list = "error" THEN ReturnPoll(poll, 200, "Cursor API error")
                    ELSE [poll EXCEPT !.activeAgents = ActiveAgents, !.pc = "trackers"])
  /\ UNCHANGED <<cx, sw, emailAgent, user, cursorAgentMapping, agentLaunchLog, cursorApi>>

\* GET, the select of the tracked agents: without trackers GET answers with
\* the active agents, with trackers the notifier is called.
CursorAgentsGETTrackers ==
  /\ \E poll \in http.polling :
       /\ poll.pc = "trackers"
       /\ \E agentTrackers \in AgentTrackerResults(agentLaunchLog, poll.user) :
            http' = ProceedPoll(poll,
                      IF Len(agentTrackers) > 0
                      THEN [poll EXCEPT !.trackers = agentTrackers, !.pc = "check"]
                      ELSE ReturnPoll(poll, 200, ""))
  /\ UNCHANGED <<cx, sw, emailAgent, user, cursorAgentMapping, agentLaunchLog, cursorApi>>

\* checkAndNotifyAgentCompletion, the request to /v0/agents: when Cursor
\* answers with an error status the notifier returns, when the fetch throws
\* its catch runs; with Cursor's list the loop over the trackers starts.
CursorAgentsGETCheck ==
  /\ \E poll \in http.polling, check \in ListAnswers :
       /\ poll.pc = "check"
       /\ http' = ProceedPoll(poll,
                    IF check = "throws"
                    THEN ReturnPoll([poll EXCEPT !.threw = TRUE], 200, "")
                    ELSE IF check # "ok" THEN ReturnPoll(poll, 200, "")
                    ELSE ContinuePoll([poll EXCEPT !.currentAgents =
                                         CurrentAgents(TrackedIds(poll.trackers))], 1))
  /\ UNCHANGED <<cx, sw, emailAgent, user, cursorAgentMapping, agentLaunchLog, cursorApi>>

\* checkAndNotifyAgentCompletion, sendWebhook for the tracker the loop is
\* at: the payload is built from the job as Cursor listed it, and
\* sendWebhook returns whether the webhook was delivered.
CursorAgentsGETSend ==
  /\ \E poll \in http.polling, sent \in BOOLEAN :
       /\ poll.pc = "send"
       /\ \E tracker \in {poll.trackers[poll.i]} :
            http' = [ProceedPoll(poll, AfterSendWebhook(poll,
                        Delivery(tracker.agentId,
                                 StatusIn(poll.currentAgents, tracker.agentId),
                                 tracker.webhookUrl, tracker.webhookSecret,
                                 tracker.metadata, sent)))
                       EXCEPT !.notified[tracker.agentId] = IF sent THEN @ + 1 ELSE @]
  /\ UNCHANGED <<cx, sw, emailAgent, user, cursorAgentMapping, agentLaunchLog, cursorApi>>

\* checkAndNotifyAgentCompletion, the update of the launch log for the
\* tracker the loop is at; an update that throws ends the loop in the
\* catch. After the last tracker GET answers with the active agents.
CursorAgentsGETUpdate ==
  /\ \E poll \in http.polling, updateOk \in BOOLEAN :
       /\ poll.pc = "update"
       /\ \E tracker \in {poll.trackers[poll.i]} :
            /\ agentLaunchLog' =
                 IF updateOk
                 THEN UpdateLaunchLog(agentLaunchLog, tracker.agentId,
                                      tracker.metadata.emailAgentId,
                                      StatusIn(poll.currentAgents, tracker.agentId))
                 ELSE agentLaunchLog
            /\ http' = [ProceedPoll(poll,
                           IF updateOk THEN ContinuePoll(poll, poll.i + 1)
                           ELSE ReturnPoll([poll EXCEPT !.threw = TRUE], 200, ""))
                          EXCEPT !.processed =
                            NoteUpdate(@, tracker,
                                       StatusIn(poll.currentAgents, tracker.agentId),
                                       http.polls, updateOk)]
  /\ UNCHANGED <<cx, sw, emailAgent, user, cursorAgentMapping, cursorApi>>

\* The handler of GET /api/cursor-agents, await by await.
CursorAgentsGET ==
  \/ CursorAgentsGETSelect
  \/ CursorAgentsGETKeys
  \/ CursorAgentsGETMe
  \/ CursorAgentsGETList
  \/ CursorAgentsGETTrackers
  \/ CursorAgentsGETCheck
  \/ CursorAgentsGETSend
  \/ CursorAgentsGETUpdate

\* Values of the webhookUrl field of a registration: absent, a text that
\* is no URL ('::'), and a URL (written 'h').
RegisteredUrls == {Null, <<58, 58>>, <<104>>}

\* new URL(webhookUrl) succeeds.
IsUrl(text) == text = <<104>>

\* Values of the webhookSecret field of a registration: absent, JSON null,
\* the empty string, and 'r'.
RegisteredSecrets == {Undefined, Null, <<>>, <<114>>}

\* The values of originalEmailId and senderEmail in a registration: the
\* original email id is absent or 'e9', the sender is 'a@x'.
RegisteredEmailIds == {Null, <<101, 57>>}
RegisteredSender == <<97, 64, 120>>

\* The fields of the body of a registration that the handler reads after
\* Cursor's answer: without an email agent; for the first email agent with
\* each value of the secret; for the second email agent and for one that
\* does not exist.
RegistrationBodies ==
  {[emailAgentId |-> "", webhookSecret |-> Undefined, originalEmailId |-> Null]}
    \cup {[emailAgentId |-> "ea1", webhookSecret |-> secret,
           originalEmailId |-> IF secret = <<114>> THEN <<101, 57>> ELSE Null] :
            secret \in RegisteredSecrets}
    \cup {[emailAgentId |-> id, webhookSecret |-> <<114>>, originalEmailId |-> Null] :
            id \in {"ea2", "ea9"}}

\* A registration that is suspended at an await: its number, its session's
\* user, the API key, the fields of its body, the status of the agent in
\* Cursor's answer, the await it is at (pc), and the answer of a
\* registration that returns: the status, the error, the webhook handed to
\* sendWebhook and the webhookSent field of the body (the JSON text of
\* sendWebhook's result, or "absent").
Registration(n, userId, apiKey, agentId, webhookUrl) ==
  [registration |-> n, user |-> userId, apiKey |-> apiKey, agentId |-> agentId,
   webhookUrl |-> webhookUrl, webhookSecret |-> Undefined, emailAgentId |-> "",
   originalEmailId |-> Null, agentStatus |-> "", pc |-> "list", status |-> 200,
   error |-> "", deliveries |-> <<>>, webhookSent |-> "absent"]

\* The registration returns its answer.
ReturnRegistration(reg, status, error) ==
  [reg EXCEPT !.pc = "return", !.status = status, !.error = error]

\* The answer of a registration: the body of a 200 names the agent and its
\* status, the others carry an error.
RegistrationResponse(reg) ==
  [route |-> "cursor-agents-post", registration |-> reg.registration, user |-> reg.user,
   status |-> reg.status, error |-> reg.error,
   agentId |-> IF reg.status = 200 THEN reg.agentId ELSE Null,
   agentStatus |-> IF reg.status = 200 THEN reg.agentStatus ELSE "",
   deliveries |-> reg.deliveries, webhookSent |-> reg.webhookSent]

\* The metadata of the tracker of a registration.
RegistrationMetadata(reg) ==
  Metadata(reg.emailAgentId, reg.originalEmailId, RegisteredSender)

\* http after a step of the registration: the registration is suspended at
\* its next await, or it has returned and its answer is the last exchange;
\* a registration that is accepted is the last one of its job.
ProceedRegistration(reg, next) ==
  IF next.pc # "return"
  THEN [http EXCEPT !.registering = (@ \ {reg}) \cup {next}]
  ELSE IF next.status = 200
  THEN [http EXCEPT !.registering = @ \ {reg}, !.last = RegistrationResponse(next),
                    !.registered[next.agentId] =
                       <<[user |-> next.user, metadata |-> RegistrationMetadata(next)]>>]
  ELSE [http EXCEPT !.registering = @ \ {reg}, !.last = RegistrationResponse(next)]

\* A registration that sends for an agent in any status (mutant).
AlreadyCompleted_AnyStatus(status) == TRUE

\* The agent of a registration is already completed.
AlreadyCompleted(status) == status = "FINISHED" \/ status = "ERROR"

\* The registration after the launch log: for an agent that is already
\* completed the webhook is sent at once, for another the handler answers
\* that monitoring is registered.
StartMonitoring(reg) ==
  IF AlreadyCompleted(reg.agentStatus) THEN [reg EXCEPT !.pc = "send"]
  ELSE ReturnRegistration(reg, 200, "")

\* The agent ids of a registration: none, the jobs Cursor has, and one it
\* has not.
RegisteredAgentIds ==
  {Null} \cup {job.id : job \in cursorApi} \cup {CursorAgentId(http.jobs + 1)}

\* POST /api/cursor-agents, up to the first answer of the database: the
\* session is checked, the body is parsed (a body that is no JSON throws,
\* which is answered with 500), its agent id and webhook url are checked,
\* the selects of the user's default key and of the user's email agents
\* are sent, and one of them is answered.
CursorAgentsPOSTValidate ==
  /\ http.registrations < MaxRegistrations
  /\ \E userId \in Sessions, json \in {"object", "throws"}, agentId \in RegisteredAgentIds, webhookUrl \in RegisteredUrls :
       LET n == http.registrations + 1
           Refuse(status, error) ==
             [ProceedRegistration(Registration(n, userId, Null, agentId, webhookUrl),
                ReturnRegistration(Registration(n, userId, Null, agentId, webhookUrl),
                                   status, error))
                EXCEPT !.registrations = n]
       IN IF userId = "" THEN http' = Refuse(401, "Unauthorized")
          ELSE IF json = "throws" THEN http' = Refuse(500, "Internal server error")
          ELSE IF ~Truthy(agentId) THEN http' = Refuse(400, "Agent ID is required")
          ELSE IF ~Truthy(webhookUrl) THEN http' = Refuse(400, "Webhook URL is required")
          ELSE IF ~IsUrl(webhookUrl) THEN http' = Refuse(400, "Invalid webhook URL format")
          ELSE \E first \in FirstKeyResults(userId) :
            http' = [http EXCEPT !.registrations = n,
                                 !.registering = @ \cup
                                    {[Registration(n, userId, first.apiKey, agentId,
                                                   webhookUrl)
                                        EXCEPT !.pc = first.pc]}]
  /\ UNCHANGED <<cx, sw, emailAgent, user, cursorAgentMapping, agentLaunchLog, cursorApi>>

\* POST, the second answer of the database, up to the request to
\* /v0/agents: without a key the answer is 400.
CursorAgentsPOSTKeys ==
  /\ \E reg \in http.registering :
       /\ reg.pc \in {"agents", "user"}
       /\ \E apiKey \in SecondKeyResults(reg.pc, reg.user, reg.apiKey) :
            http' = ProceedRegistration(reg,
                      IF Truthy(apiKey) THEN [reg EXCEPT !.apiKey = apiKey, !.pc = "list"]
                      ELSE ReturnRegistration([reg EXCEPT !.apiKey = apiKey], 400,
                                              "No Cursor API key found"))
  /\ UNCHANGED <<cx, sw, emailAgent, user, cursorAgentMapping, agentLaunchLog, cursorApi>>

\* POST, the request to /v0/agents: a fetch that throws is answered with
\* 500, an error status with 400, and an agent that is not in Cursor's list
\* with 404. With an email agent id the email agent is selected next;
\* without one existingLog is empty and the insert is next.
CursorAgentsPOSTList ==
  /\ \E reg \in http.registering, list \in ListAnswers :
       /\ reg.pc = "list"
       /\ IF list = "throws"
          THEN http' = ProceedRegistration(reg,
                         ReturnRegistration(reg, 500, "Internal server error"))
          ELSE IF list # "ok"
          THEN http' = ProceedRegistration(reg,
                         ReturnRegistration(reg, 400, "Failed to verify agent existence"))
          ELSE IF CurrentAgents({reg.agentId}) = {}
          THEN http' = ProceedRegistration(reg,
                         ReturnRegistration(reg, 404, "Agent not found"))
          ELSE \E body \in RegistrationBodies :
            http' = ProceedRegistration(reg,
                      [reg EXCEPT !.agentStatus =
                                     StatusIn(CurrentAgents({reg.agentId}), reg.agentId),
                                  !.emailAgentId = body.emailAgentId,
                                  !.webhookSecret = body.webhookSecret,
                                  !.originalEmailId = body.originalEmailId,
                                  !.pc = IF body.emailAgentId # "" THEN "select"
                                         ELSE "insert"])
  /\ UNCHANGED <<cx, sw, emailAgent, user, cursorAgentMapping, agentLaunchLog, cursorApi>>

\* POST, the select of the email agent of the body: the update follows
\* when the user has the email agent.
CursorAgentsPOSTSelect ==
  /\ \E reg \in http.registering :
       /\ reg.pc = "select"
       /\ http' = ProceedRegistration(reg,
                    [reg EXCEPT !.pc = IF Owns(reg.user, reg.emailAgentId)
                                       THEN "update" ELSE "log"])
  /\ UNCHANGED <<cx, sw, emailAgent, user, cursorAgentMapping, agentLaunchLog, cursorApi>>

\* POST, the update of the email agent with the id of the body, if it is
\* still there: the webhook url is set, and the webhook secret unless the
\* body has none (undefined is no value to set; null and '' are). An update
\* that throws is answered with 500.
CursorAgentsPOSTUpdate ==
  /\ \E reg \in http.registering, updateOk \in BOOLEAN :
       /\ reg.pc = "update"
       /\ emailAgent' =
            IF updateOk /\ reg.emailAgentId \in DOMAIN emailAgent
            THEN [emailAgent EXCEPT
                    ![reg.emailAgentId].webhookUrl = reg.webhookUrl,
                    ![reg.emailAgentId].webhookSecret =
                       IF reg.webhookSecret = Undefined THEN @ ELSE reg.webhookSecret]
            ELSE emailAgent
       /\ http' = ProceedRegistration(reg,
                    IF updateOk THEN [reg EXCEPT !.pc = "log"]
                    ELSE ReturnRegistration(reg, 500, "Internal server error"))
  /\ UNCHANGED <<cx, sw, user, cursorAgentMapping, agentLaunchLog, cursorApi>>

\* POST, the select of the launch log rows of the job and the user: with a
\* row the handler goes on to the monitoring, without one the insert is
\* next.
CursorAgentsPOSTLog ==
  /\ \E reg \in http.registering :
       /\ reg.pc = "log"
       /\ http' = ProceedRegistration(reg,
                    IF \E i \in 1..Len(agentLaunchLog) :
                         /\ agentLaunchLog[i].cursorAgentId = reg.agentId
                         /\ agentLaunchLog[i].userId = reg.user
                    THEN StartMonitoring(reg)
                    ELSE [reg EXCEPT !.pc = "insert"])
  /\ UNCHANGED <<cx, sw, emailAgent, user, cursorAgentMapping, agentLaunchLog, cursorApi>>

\* POST, the insert of the launch log row, with status 'success'. The row
\* refers to an email agent: inserting it without one ('') or with one
\* that does not exist throws, as any insert can, which is answered with
\* 500.
CursorAgentsPOSTInsert ==
  /\ \E reg \in http.registering, insertOk \in BOOLEAN :
       /\ reg.pc = "insert"
       /\ insertOk => reg.emailAgentId \in DOMAIN emailAgent
       /\ agentLaunchLog' =
            IF insertOk
            THEN Append(agentLaunchLog,
                        LogRow(reg.emailAgentId, reg.user, RegisteredSender, "success",
                               reg.agentId))
            ELSE agentLaunchLog
       /\ http' = [ProceedRegistration(reg,
                      IF insertOk THEN StartMonitoring(reg)
                      ELSE ReturnRegistration(reg, 500, "Internal server error"))
                     EXCEPT !.processed =
                       IF insertOk THEN Rewritten(@, reg.agentId, reg.emailAgentId)
                       ELSE @]
  /\ UNCHANGED <<cx, sw, emailAgent, user, cursorAgentMapping, cursorApi>>

\* POST, sendWebhook for the agent that is already completed, with the url
\* and the secret of the body; its result is the webhookSent of the answer.
CursorAgentsPOSTSend ==
  /\ \E reg \in http.registering, sent \in BOOLEAN :
       /\ reg.pc = "send"
       /\ http' = [ProceedRegistration(reg,
                     ReturnRegistration(
                       [reg EXCEPT !.deliveries =
                                      <<Delivery(reg.agentId, reg.agentStatus,
                                                 reg.webhookUrl, reg.webhookSecret,
                                                 RegistrationMetadata(reg), sent)>>,
                                   !.webhookSent = IF sent THEN "true" ELSE "false"],
                       200, ""))
                     EXCEPT !.notified[reg.agentId] = IF sent THEN @ + 1 ELSE @]
  /\ UNCHANGED <<cx, sw, emailAgent, user, cursorAgentMapping, agentLaunchLog, cursorApi>>

\* The handler of POST /api/cursor-agents, await by await: it registers
\* webhook monitoring for an agent, and sends the webhook at once when the
\* agent has completed.
CursorAgentsPOST ==
  \/ CursorAgentsPOSTValidate
  \/ CursorAgentsPOSTKeys
  \/ CursorAgentsPOSTList
  \/ CursorAgentsPOSTSelect
  \/ CursorAgentsPOSTUpdate
  \/ CursorAgentsPOSTLog
  \/ CursorAgentsPOSTInsert
  \/ CursorAgentsPOSTSend

(***************************************************************************)
(* The account pages and the MCP tools: the other requests that write      *)
(* email agents, user keys and the launch log, and that create and delete  *)
(* jobs at Cursor. A request that is suspended at an await is held in      *)
(* http.pending, with the await it is at (pc).                             *)
(***************************************************************************)
\* The answer of a request of an account page or of an MCP tool.
AccountResponse(route, userId, id, status) ==
  [route |-> route, user |-> userId, id |-> id, status |-> status]

\* A suspended request: its number, its session's user, the id it names,
\* its body, and the await it is at.
Request(route, n, userId, id, body, pc) ==
  [route |-> route, request |-> n, user |-> userId, id |-> id, body |-> body, pc |-> pc]

AnswerRequest(r) == [http EXCEPT !.requests = @ + 1, !.last = r]
SuspendRequest(req) == [http EXCEPT !.requests = @ + 1, !.pending = @ \cup {req}]
ResumeRequest(req, next) == [http EXCEPT !.pending = (@ \ {req}) \cup {next}]
FinishRequest(req, r) == [http EXCEPT !.pending = @ \ {req}, !.last = r]

\* Bodies of PUT /api/email-agents/[id]: a repository URL that is malformed,
\* isActive false, cursorApiKey '', and a repository with cursorApiKey 'k3'
\* and isActive true.
PutBodies ==
  {[githubRepository |-> "invalid", cursorApiKey |-> Undefined, isActive |-> "undefined"],
   [githubRepository |-> "undefined", cursorApiKey |-> Undefined, isActive |-> "false"],
   [githubRepository |-> "undefined", cursorApiKey |-> <<>>, isActive |-> "undefined"],
   [githubRepository |-> "valid", cursorApiKey |-> KeyThree, isActive |-> "true"]}

\* PUT /api/email-agents/[id], up to the update: the session and the body
\* are checked and the email agent is selected.
EmailAgentPUTSelect ==
  /\ http.requests < MaxRequests
  /\ \E session \in Sessions, id \in AgentIds \cup DOMAIN emailAgent, body \in PutBodies :
       LET Answer(status) ==
             AnswerRequest(AccountResponse("email-agents-put", session, id, status))
       IN http' = IF session = "" THEN Answer(401)
                  ELSE IF body.githubRepository = "invalid" THEN Answer(400)
                  ELSE IF ~Owns(session, id) THEN Answer(404)
                  ELSE SuspendRequest(Request("email-agents-put", http.requests + 1,
                                              session, id, body, "update"))
  /\ UNCHANGED <<cx, sw, emailAgent, user, cursorAgentMapping, agentLaunchLog, cursorApi>>

\* PUT /api/email-agents/[id], the update: the fields the body has are
\* set on the row, if it is still there; an update that throws is answered
\* with 500.
EmailAgentPUTUpdate ==
  /\ \E req \in http.pending, updateOk \in BOOLEAN :
       /\ req.route = "email-agents-put"
       /\ req.pc = "update"
       /\ emailAgent' =
            IF updateOk /\ Owns(req.user, req.id)
            THEN [emailAgent EXCEPT
                    ![req.id].cursorApiKey =
                       IF req.body.cursorApiKey = Undefined THEN @
                       ELSE req.body.cursorApiKey,
                    ![req.id].isActive =
                       IF req.body.isActive = "undefined" THEN @
                       ELSE req.body.isActive = "true"]
            ELSE emailAgent
       /\ http' = FinishRequest(req, AccountResponse(req.route, req.user, req.id,
                                                     IF updateOk THEN 200 ELSE 500))
  /\ UNCHANGED <<cx, sw, user, cursorAgentMapping, agentLaunchLog, cursorApi>>

\* DELETE /api/email-agents/[id], up to the delete.
EmailAgentDELETESelect ==
  /\ http.requests < MaxRequests
  /\ \E session \in Sessions, id \in AgentIds \cup DOMAIN emailAgent :
       LET Answer(status) ==
             AnswerRequest(AccountResponse("email-agents-delete", session, id, status))
       IN http' = IF session = "" THEN Answer(401)
                  ELSE IF ~Owns(session, id) THEN Answer(404)
                  ELSE SuspendRequest(Request("email-agents-delete", http.requests + 1,
                                              session, id, Undefined, "delete"))
  /\ UNCHANGED <<cx, sw, emailAgent, user, cursorAgentMapping, agentLaunchLog, cursorApi>>

\* The rows of a launch log that do not refer to the email agent id.
RowsNotOf(log, id) ==
  LET Keep(row) == row.emailAgentId # id IN SelectSeq(log, Keep)

\* DELETE /api/email-agents/[id], the delete: the row goes, and with it the
\* rows of cursor_agent_mapping and agent_launch_log that refer to it (on
\* delete cascade).
EmailAgentDELETEDelete ==
  /\ \E req \in http.pending, deleteOk \in BOOLEAN :
       /\ req.route = "email-agents-delete"
       /\ req.pc = "delete"
       /\ IF deleteOk /\ Owns(req.user, req.id)
          THEN /\ emailAgent' = [a \in DOMAIN emailAgent \ {req.id} |-> emailAgent[a]]
               /\ cursorAgentMapping' =
                    {m \in cursorAgentMapping : m.emailAgentId # req.id}
               /\ agentLaunchLog' = RowsNotOf(agentLaunchLog, req.id)
          ELSE UNCHANGED <<emailAgent, cursorAgentMapping, agentLaunchLog>>
       /\ http' = FinishRequest(req, AccountResponse(req.route, req.user, req.id,
                                                     IF deleteOk THEN 200 ELSE 500))
  /\ UNCHANGED <<cx, sw, user, cursorApi>>

\* Values of the cursorApiKey field of PUT /api/user/cursor-key: absent,
\* ' ', and ' k3'.
KeyTexts == {Null, <<32>>, <<32, 107, 51>>}

\* PUT /api/user/cursor-key: stores the trimmed key as the user's default.
CursorKeyPUT ==
  /\ http.requests < MaxRequests
  /\ \E session \in Sessions, cursorApiKey \in KeyTexts, updateOk \in BOOLEAN :
       LET Answer(status) ==
             AnswerRequest(AccountResponse("cursor-key-put", session, "", status))
           updated == updateOk /\ session \in DOMAIN user
       IN IF session = ""
          THEN http' = Answer(401) /\ UNCHANGED user
          ELSE IF ~Truthy(cursorApiKey) \/ Len(trim(cursorApiKey)) = 0
          THEN http' = Answer(400) /\ UNCHANGED user
          ELSE
            /\ user' = IF updated
                       THEN [user EXCEPT ![session].defaultCursorApiKey = trim(cursorApiKey)]
                       ELSE user
            /\ http' = Answer(IF ~updateOk THEN 500 ELSE IF updated THEN 200 ELSE 404)
  /\ UNCHANGED <<cx, sw, emailAgent, cursorAgentMapping, agentLaunchLog, cursorApi>>

\* DELETE /api/user/cursor-key: sets the user's default key to null.
CursorKeyDELETE ==
  /\ http.requests < MaxRequests
  /\ \E session \in Sessions, updateOk \in BOOLEAN :
       LET Answer(status) ==
             AnswerRequest(AccountResponse("cursor-key-delete", session, "", status))
           updated == updateOk /\ session \in DOMAIN user
       IN IF session = ""
          THEN http' = Answer(401) /\ UNCHANGED user
          ELSE
            /\ user' = IF updated
                       THEN [user EXCEPT ![session].defaultCursorApiKey = Null]
                       ELSE user
            /\ http' = Answer(IF ~updateOk THEN 500 ELSE IF updated THEN 200 ELSE 404)
  /\ UNCHANGED <<cx, sw, emailAgent, cursorAgentMapping, agentLaunchLog, cursorApi>>

\* The ids nanoid() gives to the email agents that requests create: the
\* n-th request gets the n-th.
NewAgentIds == <<"ea3", "ea4", "ea5", "ea6">>
nanoid(n) == NewAgentIds[n]

\* Bodies of POST /api/email-agents: one that fails a validation, one
\* without a key and without restrictions, and one with the key 'k3' that
\* allows the sender 'b@y'.
CreateBodies ==
  {[valid |-> FALSE, cursorApiKey |-> KeyThree, allowedEmails |-> <<>>],
   [valid |-> TRUE, cursorApiKey |-> Null, allowedEmails |-> <<>>],
   [valid |-> TRUE, cursorApiKey |-> KeyThree, allowedEmails |-> <<<<98, 64, 121>>>>]}

\* POST /api/email-agents, up to the call of createEmailAgent: the key is
\* the body's or else the user's default, and the fields are validated.
EmailAgentsPOSTValidate ==
  /\ http.requests < MaxRequests
  /\ http.requests < Len(NewAgentIds)
  /\ \E session \in Sessions, body \in CreateBodies :
       LET Answer(status) ==
             AnswerRequest(AccountResponse("email-agents-post", session, "", status))
           defaultCursorApiKey == IF session \in DOMAIN user
                                  THEN user[session].defaultCursorApiKey ELSE Null
           finalCursorApiKey == IF Truthy(body.cursorApiKey) THEN body.cursorApiKey
                                ELSE IF Truthy(defaultCursorApiKey)
                                THEN defaultCursorApiKey ELSE body.cursorApiKey
       IN http' = IF session = "" THEN Answer(401)
                  ELSE IF ~body.valid THEN Answer(400)
                  ELSE IF ~Truthy(finalCursorApiKey) THEN Answer(400)
                  ELSE SuspendRequest(Request("email-agents-post", http.requests + 1,
                                              session, nanoid(http.requests + 1),
                                              [body EXCEPT !.cursorApiKey = finalCursorApiKey],
                                              "insert"))
  /\ UNCHANGED <<cx, sw, emailAgent, user, cursorAgentMapping, agentLaunchLog, cursorApi>>

\* The function emailAgent with one more row.
WithRow(id, row) ==
  [a \in DOMAIN emailAgent \cup {id} |-> IF a = id THEN row ELSE emailAgent[a]]

\* POST /api/email-agents, createEmailAgent and the insert: when either
\* throws the request is answered with 500 and there is no row.
EmailAgentsPOSTInsert ==
  /\ \E req \in http.pending, createOk \in BOOLEAN, insertOk \in BOOLEAN :
       /\ req.route = "email-agents-post"
       /\ req.pc = "insert"
       /\ createOk \/ insertOk
       /\ emailAgent' =
            IF createOk /\ insertOk
            THEN WithRow(req.id, [isActive |-> TRUE, userId |-> req.user,
                                  cursorApiKey |-> req.body.cursorApiKey,
                                  emailAddress |-> "new@bg.inbound.new",
                                  allowedDomains |-> <<>>,
                                  allowedEmails |-> req.body.allowedEmails,
                                  webhookSecret |-> Null, webhookUrl |-> Null])
            ELSE emailAgent
       /\ http' = FinishRequest(req, AccountResponse(req.route, req.user, req.id,
                                                     IF createOk /\ insertOk
                                                     THEN 200 ELSE 500))
  /\ UNCHANGED <<cx, sw, user, cursorAgentMapping, agentLaunchLog, cursorApi>>

\* The MCP tools that write: the arguments of a call are the agent id and
\* the confirmation (delete_cursor_agent, add_agent_followup) or the
\* webhook url and secret (create_cursor_agent).
McpTools == {"create_cursor_agent", "delete_cursor_agent", "add_agent_followup"}

McpArguments(tool) ==
  IF tool = "create_cursor_agent"
  THEN {[agentId |-> Null, confirm |-> TRUE, webhookUrl |-> Null, webhookSecret |-> Null],
        [agentId |-> Null, confirm |-> TRUE, webhookUrl |-> <<104>>,
         webhookSecret |-> <<114>>]}
  ELSE IF tool = "delete_cursor_agent"
  THEN {[agentId |-> CursorAgentId(1), confirm |-> c, webhookUrl |-> Null,
         webhookSecret |-> Null] : c \in BOOLEAN}
  ELSE {[agentId |-> CursorAgentId(1), confirm |-> TRUE, webhookUrl |-> Null,
         webhookSecret |-> Null]}

\* The answer of a tool: what its text reports.
McpResponse(req, outcome, cursorAgentId) ==
  [route |-> req.route, user |-> req.user, id |-> req.id, status |-> 200,
   outcome |-> outcome, cursorAgentId |-> cursorAgentId]

\* A call of a tool, up to the first read of getCursorApiKey: without a
\* session the handler answers 401, and delete_cursor_agent stops when it
\* is not confirmed. A user with a default key has the key; for the others
\* the email agents are read next.
McpToolCall(tool) ==
  /\ http.requests < MaxRequests
  /\ http.requests < Len(NewAgentIds)
  /\ \E session \in Sessions, arguments \in McpArguments(tool) :
         LET n == http.requests + 1
             req == Request(tool, n, session, nanoid(n), arguments, "key")
         IN http' =
              IF session = ""
              THEN AnswerRequest(AccountResponse(tool, session, "", 401))
              ELSE IF tool = "delete_cursor_agent" /\ ~arguments.confirm
              THEN AnswerRequest(McpResponse(req, "cancelled", Null))
              ELSE IF session \in DOMAIN user /\ Truthy(user[session].defaultCursorApiKey)
              THEN SuspendRequest([req EXCEPT !.pc = "fetch"])
              ELSE SuspendRequest(req)
  /\ UNCHANGED <<cx, sw, emailAgent, user, cursorAgentMapping, agentLaunchLog, cursorApi>>

McpCreateCall == McpToolCall("create_cursor_agent")
McpDeleteCall == McpToolCall("delete_cursor_agent")
McpFollowupCall == McpToolCall("add_agent_followup")

\* What select cursorApiKey from emailAgent where userId = ... limit 1 can
\* give: the key of any one of the user's email agents, or no row.
AgentKeyResults(userId) ==
  LET own == {a \in DOMAIN emailAgent : emailAgent[a].userId = userId}
  IN IF own = {} THEN {Null} ELSE {emailAgent[a].cursorApiKey : a \in own}

\* getCursorApiKey, the fallback to an email agent's key: without a key the
\* tool answers that there is none.
McpToolAgentKey ==
  /\ \E req \in http.pending :
       /\ req.route \in McpTools
       /\ req.pc = "key"
       /\ \E apiKey \in AgentKeyResults(req.user) :
            http' = IF Truthy(apiKey)
                    THEN ResumeRequest(req, [req EXCEPT !.pc = "fetch"])
                    ELSE FinishRequest(req, McpResponse(req, "no key", Null))
  /\ UNCHANGED <<cx, sw, emailAgent, user, cursorAgentMapping, agentLaunchLog, cursorApi>>

\* create_cursor_agent, the request to Cursor: the job carries the webhook
\* of the arguments, when they have a url. With a url the tool goes on to
\* register the job for monitoring.
McpCreateFetch ==
  /\ \E req \in http.pending, answer \in CursorAnswers :
       /\ req.route = "create_cursor_agent"
       /\ req.pc = "fetch"
       /\ LET id == CursorAgentId(http.jobs + 1)
              hasWebhook == Truthy(req.body.webhookUrl)
          IN IF answer = "created"
             THEN
               /\ cursorApi' = cursorApi \cup
                    {[id |-> id,
                      webhookUrl |-> IF hasWebhook THEN req.body.webhookUrl ELSE Null,
                      webhookSecret |-> IF hasWebhook THEN req.body.webhookSecret ELSE Null,
                      status |-> "CREATING"]}
               /\ http' = IF hasWebhook
                          THEN [ResumeRequest(req, [req EXCEPT !.pc = "agent",
                                                               !.body.agentId = id])
                                  EXCEPT !.jobs = @ + 1]
                          ELSE [FinishRequest(req, McpResponse(req, "created", id))
                                  EXCEPT !.jobs = @ + 1]
             ELSE
               /\ cursorApi' = cursorApi
               /\ http' = FinishRequest(req, McpResponse(req, answer, Null))
  /\ UNCHANGED <<cx, sw, emailAgent, user, cursorAgentMapping, agentLaunchLog>>

\* create_cursor_agent, the insert of the temporary email agent that holds
\* the webhook of the job; when it throws the job is not registered.
McpCreateInsertAgent ==
  /\ \E req \in http.pending, insertOk \in BOOLEAN :
       /\ req.route = "create_cursor_agent"
       /\ req.pc = "agent"
       /\ emailAgent' =
            IF insertOk
            THEN WithRow(req.id, [isActive |-> FALSE, userId |-> req.user,
                                  cursorApiKey |-> Null, emailAddress |-> "",
                                  allowedDomains |-> <<>>, allowedEmails |-> <<>>,
                                  webhookSecret |-> req.body.webhookSecret,
                                  webhookUrl |-> req.body.webhookUrl])
            ELSE emailAgent
       /\ http' = IF insertOk
                  THEN ResumeRequest(req, [req EXCEPT !.pc = "log"])
                  ELSE FinishRequest(req, McpResponse(req, "created, not registered",
                                                      req.body.agentId))
  /\ UNCHANGED <<cx, sw, user, cursorAgentMapping, agentLaunchLog, cursorApi>>

\* create_cursor_agent, the insert of the launch log row of the job, which
\* refers to the temporary email agent.
McpCreateInsertLog ==
  /\ \E req \in http.pending, insertOk \in BOOLEAN :
       /\ req.route = "create_cursor_agent"
       /\ req.pc = "log"
       /\ insertOk => req.id \in DOMAIN emailAgent
       /\ agentLaunchLog' =
            IF insertOk
            THEN Append(agentLaunchLog,
                        LogRow(req.id, req.user, <<>>, "success", req.body.agentId))
            ELSE agentLaunchLog
       /\ http' = FinishRequest(req, McpResponse(req, IF insertOk THEN "created, registered"
                                                      ELSE "created, not registered",
                                                 req.body.agentId))
  /\ UNCHANGED <<cx, sw, emailAgent, user, cursorAgentMapping, cursorApi>>

\* What Cursor answers to DELETE /v0/agents/<id> and to a follow-up.
ToolAnswers == {"ok", "not found", "error", "throws"}

\* delete_cursor_agent, the request to Cursor: Cursor deletes the job it
\* has, and answers 404 for one it has not.
McpDeleteFetch ==
  /\ \E req \in http.pending, answer \in ToolAnswers :
       /\ req.route = "delete_cursor_agent"
       /\ req.pc = "fetch"
       /\ LET found == {job \in cursorApi : job.id = req.body.agentId} IN
            /\ answer = "ok" => found # {}
            /\ answer = "not found" => found = {}
            /\ cursorApi' = IF answer = "ok" THEN cursorApi \ found ELSE cursorApi
       /\ http' = FinishRequest(req, McpResponse(req, answer, req.body.agentId))
  /\ UNCHANGED <<cx, sw, emailAgent, user, cursorAgentMapping, agentLaunchLog>>

\* add_agent_followup, the request to Cursor: a job that takes the
\* instructions is at work again, or stays as it is.
McpFollowupFetch ==
  /\ \E req \in http.pending, answer \in ToolAnswers, resumes \in BOOLEAN :
       /\ req.route = "add_agent_followup"
       /\ req.pc = "fetch"
       /\ LET found == {job \in cursorApi : job.id = req.body.agentId} IN
            /\ answer = "ok" => found # {}
            /\ answer = "not found" => found = {}
            /\ resumes => answer = "ok"
            /\ cursorApi' = IF resumes
                            THEN (cursorApi \ found)
                                   \cup {[job EXCEPT !.status = "RUNNING"] : job \in found}
                            ELSE cursorApi
       /\ http' = FinishRequest(req, McpResponse(req, answer, req.body.agentId))
  /\ UNCHANGED <<cx, sw, emailAgent, user, cursorAgentMapping, agentLaunchLog>>

\* The requests of the account pages.
AccountRequests ==
  \/ EmailAgentPUTSelect
  \/ EmailAgentPUTUpdate
  \/ EmailAgentDELETESelect
  \/ EmailAgentDELETEDelete
  \/ CursorKeyPUT
  \/ CursorKeyDELETE
  \/ EmailAgentsPOSTValidate
  \/ EmailAgentsPOSTInsert

\* The calls of the MCP tools.
McpCreateCursorAgent ==
  \/ McpCreateCall
  \/ McpToolAgentKey
  \/ McpCreateFetch
  \/ McpCreateInsertAgent
  \/ McpCreateInsertLog

McpRequests ==
  \/ McpCreateCursorAgent
  \/ McpDeleteCall
  \/ McpDeleteFetch
  \/ McpFollowupCall
  \/ McpFollowupFetch

(***************************************************************************)
(* Specifications.                                                         *)
(***************************************************************************)
\* The system: launches from inbound emails, Cursor's webhooks and progress,
\* the agents API, the account pages and the MCP tools.
Init ==
  /\ cx = CodecIdle
  /\ sw = SendWebhookIdle
  /\ emailAgent = InitEmailAgent
  /\ user = InitUser
  /\ cursorAgentMapping = SeededMappings
  /\ agentLaunchLog = <<>>
  /\ cursorApi = {}
  /\ http = HttpIdle

Next ==
  \/ InboundReceivePOST
  \/ CursorWebhookPOST
  \/ CursorJobProgress
  \/ CursorAgentsGET
  \/ CursorAgentsPOST
  \/ AccountRequests
  \/ McpRequests

Spec == Init /\ [][Next]_vars

\* The inbound verifier with the writers of the job registry: the launches,
\* and the deletion of an email agent, which takes its jobs' records along.
VerifierNext ==
  \/ InboundReceivePOST
  \/ CursorWebhookPOST
  \/ EmailAgentDELETESelect
  \/ EmailAgentDELETEDelete

VerifierSpec == Init /\ [][VerifierNext]_vars

\* The delivery engine alone.
DeliverNext == SendWebhookCall \/ SendWebhookAttempt \/ SendWebhookBackoff

DeliverSpec == Init /\ [][DeliverNext]_vars

\* A started delivery keeps running: the runtime resumes the function after
\* each fetch and each timer.
DeliverLiveSpec ==
  DeliverSpec /\ WF_vars(SendWebhookAttempt) /\ WF_vars(SendWebhookBackoff)

\* The launch handler with Cursor's progress, the account pages and the MCP
\* tools. The owner of the restricted agent may have a default Cursor API
\* key, or none.
LaunchSpecInit ==
  /\ cx = CodecIdle
  /\ sw = SendWebhookIdle
  /\ emailAgent = InitEmailAgent
  /\ user \in {InitUser, [InitUser EXCEPT !["u2"].defaultCursorApiKey = KeyTwo]}
  /\ cursorAgentMapping = SeededMappings
  /\ agentLaunchLog = <<>>
  /\ cursorApi = {}
  /\ http = HttpIdle

LaunchNext ==
  \/ InboundReceivePOST
  \/ CursorJobProgress
  \/ AccountRequests
  \/ McpRequests

LaunchSpec == LaunchSpecInit /\ [][LaunchNext]_vars

\* The state after a number of launches through the first email agent,
\* each with a webhook: Cursor has the jobs, the email agent the url and
\* the secret of the last launch, and the launch log a row for each.
LaunchedInit(launches) ==
  /\ cx = CodecIdle
  /\ sw = SendWebhookIdle
  /\ emailAgent = [InitEmailAgent EXCEPT
                     !["ea1"].webhookSecret = generateWebhookSecret(launches),
                     !["ea1"].webhookUrl = InboundEmailId(launches)]
  /\ user = InitUser
  /\ cursorAgentMapping =
       SeededMappings \cup {MappingRow(CursorAgentId(n), InitEmailAgent["ea1"], "ea1",
                                       InboundEmailId(n)) : n \in 1..launches}
  /\ agentLaunchLog = [n \in 1..launches |->
                         LogRow("ea1", "u1", <<97, 64, 120>>, "success", CursorAgentId(n))]
  /\ cursorApi = {[id |-> CursorAgentId(n), webhookUrl |-> InboundEmailId(n),
                   webhookSecret |-> generateWebhookSecret(n), status |-> "CREATING"] :
                    n \in 1..launches}
  /\ http = [HttpIdle EXCEPT !.launches = launches, !.jobs = launches]

\* The state after create_cursor_agent has created a job without a
\* webhook: Cursor has the job, and the launch log has no row of it.
CreatedInit ==
  /\ cx = CodecIdle
  /\ sw = SendWebhookIdle
  /\ emailAgent = InitEmailAgent
  /\ user = InitUser
  /\ cursorAgentMapping = SeededMappings
  /\ agentLaunchLog = <<>>
  /\ cursorApi = {[id |-> CursorAgentId(1), webhookUrl |-> Null, webhookSecret |-> Null,
                   status |-> "CREATING"]}
  /\ http = [HttpIdle EXCEPT !.requests = 1, !.jobs = 1]

\* Polls over several tracked jobs: the state after MaxTracked launches,
\* and then Cursor's progress and status polls, which can overlap.
TrackedInit == LaunchedInit(MaxTracked)

TrackedNext ==
  \/ CursorJobProgress
  \/ CursorAgentsGET

TrackedSpec == TrackedInit /\ [][TrackedNext]_vars

\* Registrations, which can overlap, of a job that a launch or
\* create_cursor_agent has created, with Cursor's progress and with the
\* requests that take the email agent or the job of a registration away
\* or set the job to work again: the deletion of an email agent, and the
\* MCP tools that delete a job and send it a follow-up.
RegisterInit == LaunchedInit(1) \/ CreatedInit

RegisterNext ==
  \/ CursorJobProgress
  \/ CursorAgentsPOST
  \/ EmailAgentDELETESelect
  \/ EmailAgentDELETEDelete
  \/ McpDeleteCall
  \/ McpFollowupCall
  \/ McpToolAgentKey
  \/ McpDeleteFetch
  \/ McpFollowupFetch

RegisterSpec == RegisterInit /\ [][RegisterNext]_vars

\* Launches, Cursor's progress and status polls, which can overlap, with
\* the requests that take a tracked job away or set it to work again: the
\* deletion of an email agent, and the MCP tools that delete a job and send
\* it a follow-up.
PollNext ==
  \/ InboundReceivePOST
  \/ CursorJobProgress
  \/ CursorAgentsGET
  \/ EmailAgentDELETESelect
  \/ EmailAgentDELETEDelete
  \/ McpDeleteCall
  \/ McpFollowupCall
  \/ McpToolAgentKey
  \/ McpDeleteFetch
  \/ McpFollowupFetch

PollSpec == Init /\ [][PollNext]_vars

\* Up to MaxRepolls status polls, which can overlap, of the owner of a
\* launched job, with Cursor's progress and the MCP tool that sends the job
\* a follow-up, which sets it to work again.
RepollGETSelect == CursorAgentsGETStart(MaxRepolls)

RepollNext ==
  \/ CursorJobProgress
  \/ RepollGETSelect
  \/ CursorAgentsGETKeys
  \/ CursorAgentsGETMe
  \/ CursorAgentsGETList
  \/ CursorAgentsGETTrackers
  \/ CursorAgentsGETCheck
  \/ CursorAgentsGETSend
  \/ CursorAgentsGETUpdate
  \/ McpFollowupCall
  \/ McpToolAgentKey
  \/ McpFollowupFetch

RepollSpec == LaunchedInit(1) /\ [][RepollNext]_vars

\* Launches, Cursor's progress and Cursor's webhook requests.
LaunchRaceNext ==
  \/ InboundReceivePOST
  \/ CursorJobProgress
  \/ CursorWebhookPOST

LaunchRaceSpec == Init /\ [][LaunchRaceNext]_vars

\* The inbound verifier over the seeded records, with redeliveries and the
\* request that takes rows of cursor_agent_mapping away: the deletion of an
\* email agent.
ReplayNext ==
  \/ CursorWebhookPOST
  \/ CursorWebhookReplay
  \/ EmailAgentDELETESelect
  \/ EmailAgentDELETEDelete

ReplaySpec == Init /\ [][ReplayNext]_vars

\* The agents API: polls and registrations of a job that a launch or
\* create_cursor_agent has created, MaxAgentsApiRequests requests in all,
\* which can overlap, with Cursor's progress, the deletion of an email
\* agent, and the MCP tools that delete a job and send it a follow-up.
NotifierGETSelect ==
  /\ http.polls + http.registrations < MaxAgentsApiRequests
  /\ CursorAgentsGETSelect

NotifierPOSTValidate ==
  /\ http.polls + http.registrations < MaxAgentsApiRequests
  /\ CursorAgentsPOSTValidate

NotifierNext ==
  \/ CursorJobProgress
  \/ NotifierGETSelect
  \/ CursorAgentsGETKeys
  \/ CursorAgentsGETMe
  \/ CursorAgentsGETList
  \/ CursorAgentsGETTrackers
  \/ CursorAgentsGETCheck
  \/ CursorAgentsGETSend
  \/ CursorAgentsGETUpdate
  \/ NotifierPOSTValidate
  \/ CursorAgentsPOSTKeys
  \/ CursorAgentsPOSTList
  \/ CursorAgentsPOSTSelect
  \/ CursorAgentsPOSTUpdate
  \/ CursorAgentsPOSTLog
  \/ CursorAgentsPOSTInsert
  \/ CursorAgentsPOSTSend
  \/ EmailAgentDELETESelect
  \/ EmailAgentDELETEDelete
  \/ McpDeleteCall
  \/ McpFollowupCall
  \/ McpToolAgentKey
  \/ McpDeleteFetch
  \/ McpFollowupFetch

NotifierSpec == RegisterInit /\ [][NotifierNext]_vars

\* The codec alone, over its inputs.
CodecSpecInit ==
  /\ CodecInit
  /\ sw = SendWebhookIdle
  /\ emailAgent = InitEmailAgent
  /\ user = InitUser
  /\ cursorAgentMapping = SeededMappings
  /\ agentLaunchLog = <<>>
  /\ cursorApi = {}
  /\ http = HttpIdle

CodecNext == VerifyInbound \/ VerifyExample

CodecSpec == CodecSpecInit /\ [][CodecNext]_vars

(***************************************************************************)
(* Properties of the delivery engine (DeliverSpec, DeliverLiveSpec).       *)
(***************************************************************************)
IsRequest(e) == e.type = "request"
IsSleep(e) == e.type = "sleep"
RequestsOf(trace) == SelectSeq(trace, IsRequest)
SleepsOf(trace) == SelectSeq(trace, IsSleep)
Is2xx(e) == IsRequest(e) /\ e.kind = "response" /\ e.status >= 200 /\ e.status <= 299
Is4xx(e) == IsRequest(e) /\ e.kind = "response" /\ e.status >= 400 /\ e.status <= 499
\* A 5xx response, a transport error or a timeout.
IsServerFailure(e) ==
  IsRequest(e) /\ (e.kind \in {"error", "timeout"} \/ (e.kind = "response" /\ e.status >= 500))

\* C4: an attempt answered with a 4xx status is the last thing the delivery
\* does (no request and no backoff sleep follows it) and the delivery has
\* returned false; a 404 to the first attempt leaves exactly one request.
C4_ClientErrorStops ==
  /\ \A i \in 1..Len(sw.trace) :
       Is4xx(sw.trace[i]) =>
         /\ i = Len(sw.trace)
         /\ sw.pc = "done"
         /\ sw.result = "false"
         /\ ~sw.threw
  /\ (Len(sw.trace) >= 1 /\ Is4xx(sw.trace[1]) /\ sw.trace[1].status = 404)
       => Len(RequestsOf(sw.trace)) = 1 /\ SleepsOf(sw.trace) = <<>>

\* C4 witness: the first attempt was answered 404 and the delivery is over.
C4_Witness ==
  /\ sw.pc = "done"
  /\ sw.maxRetries = DefaultMaxRetries
  /\ Len(sw.trace) = 1
  /\ sw.trace[1].kind = "response" /\ sw.trace[1].status = 404
  /\ sw.result = "false"

\* C5: a delivery never makes more than maxRetries requests; when every
\* attempt ended in a 5xx response, a transport error or a timeout, the
\* finished delivery made exactly maxRetries requests, the last of them is
\* the last thing it did, and it returned false.
C5_ExactlyMaxAttempts ==
  /\ Len(RequestsOf(sw.trace)) <= sw.maxRetries
  /\ (sw.pc = "done" /\ \A i \in 1..Len(sw.trace) :
                          IsRequest(sw.trace[i]) => IsServerFailure(sw.trace[i]))
       => /\ Len(RequestsOf(sw.trace)) = sw.maxRetries
          /\ sw.result = "false"
          /\ sw.trace # <<>> => IsRequest(sw.trace[Len(sw.trace)])
          /\ sw.maxRetries > 0 => Len(SleepsOf(sw.trace)) = sw.maxRetries - 1

\* C5 witness: a delivery with the default maxRetries whose three attempts
\* ended in a 500, a transport error and a timeout.
C5_Witness ==
  /\ sw.pc = "done"
  /\ sw.arg = -1
  /\ Len(RequestsOf(sw.trace)) = 3
  /\ RequestsOf(sw.trace)[1].status = 500
  /\ RequestsOf(sw.trace)[2].kind = "error"
  /\ RequestsOf(sw.trace)[3].kind = "timeout"
  /\ sw.result = "false"

\* C6: when the first two attempts are answered 500 and the third 200, the
\* delivery returns true after exactly three requests, having slept 1000 ms
\* after the first and 2000 ms after the second; in general the n-th sleep
\* (n from 0) lasts min(1000 * 2^n, 10000) ms and follows request n + 1.
C6_BackoffSchedule ==
  /\ LET reqs == RequestsOf(sw.trace) IN
       (Len(reqs) >= 3 /\ reqs[1].kind = "response" /\ reqs[1].status = 500
          /\ reqs[2].kind = "response" /\ reqs[2].status = 500
          /\ reqs[3].kind = "response" /\ reqs[3].status = 200)
         => /\ Len(reqs) = 3
            /\ sw.pc = "done" /\ sw.result = "true"
            /\ Len(sw.trace) = 5
            /\ IsSleep(sw.trace[2]) /\ sw.trace[2].ms = 1000
            /\ IsSleep(sw.trace[4]) /\ sw.trace[4].ms = 2000
  /\ \A i \in 1..Len(sw.trace) :
       IsSleep(sw.trace[i]) =>
         /\ i % 2 = 0
         /\ IsRequest(sw.trace[i - 1])
         /\ sw.trace[i].ms = (IF 1000 * 2 ^ ((i \div 2) - 1) < 10000
                              THEN 1000 * 2 ^ ((i \div 2) - 1) ELSE 10000)

\* C6 witness: 500, 500, 200 with the default maxRetries.
C6_Witness ==
  /\ sw.pc = "done"
  /\ sw.arg = -1
  /\ Len(sw.trace) = 5
  /\ sw.trace[1].status = 500 /\ sw.trace[3].status = 500 /\ sw.trace[5].status = 200
  /\ sw.trace[2].ms = 1000 /\ sw.trace[4].ms = 2000
  /\ sw.result = "true"

\* C7: the delivery has returned true exactly when one of its attempts
\* received a 2xx response, and an attempt that received a 2xx response is
\* the last thing the delivery did.
C7_TrueIffSuccess ==
  /\ sw.result = "true" <=> \E i \in 1..Len(sw.trace) : Is2xx(sw.trace[i])
  /\ \A i \in 1..Len(sw.trace) :
       Is2xx(sw.trace[i]) => i = Len(sw.trace) /\ sw.pc = "done"
  /\ sw.result = "true" => sw.pc = "done"

\* C7 witness: a delivery that returned true on its second attempt, after a
\* timeout.
C7_Witness ==
  /\ sw.pc = "done"
  /\ sw.result = "true"
  /\ Len(RequestsOf(sw.trace)) = 2
  /\ RequestsOf(sw.trace)[1].kind = "timeout"
  /\ RequestsOf(sw.trace)[2].status = 299

\* C8: no exception leaves sendWebhook, a finished delivery has a boolean
\* result (false without any request when maxRetries is 0), and every
\* delivery that was started finishes.
C8_TerminatesWithBoolean ==
  /\ [](~sw.threw)
  /\ [](sw.pc = "done" => sw.result \in {"true", "false"})
  /\ []((sw.pc = "done" /\ sw.maxRetries = 0) => (sw.result = "false" /\ sw.trace = <<>>))
  /\ [](sw.pc # "done" => sw.result = Pending)
  /\ ((sw.pc # "idle") ~> (sw.pc = "done"))

\* C8 witness: a delivery with maxRetries 1 whose only attempt timed out
\* has returned false.
C8_Witness ==
  /\ sw.pc = "done"
  /\ sw.arg = 1
  /\ Len(sw.trace) = 1
  /\ sw.trace[1].kind = "timeout"
  /\ sw.result = "false"
  /\ ~sw.threw

(***************************************************************************)
(* Properties of the signature codec (CodecSpec).                          *)
(***************************************************************************)
\* The signature the signing side produced for the case's secret and body.
SignedHeader == generateWebhookSignature(cx.secret, cx.body)

\* The case's mutation inverted bit 5 of a hex letter a-f of the digest,
\* which turns it into the same letter in upper case.
CaseOnlyFlip ==
  /\ cx.kind = "sigflip"
  /\ cx.i > Len(Sha256Prefix)
  /\ cx.k = 5
  /\ SignedHeader[cx.i] >= 97 /\ SignedHeader[cx.i] <= 102

\* C9: a signature produced by the signing side for secret s and body b is
\* accepted for s and b, by the inbound verifier and by the receiving
\* example alike.
C9_SignVerifyRoundTrip ==
  cx.kind = "signed" =>
    /\ cx.result \in {Pending, "true"}
    /\ cx.exampleResult \in {Pending, "true"}

\* C9 witness: the signature of a body with a two-byte character was
\* checked by both verifiers and accepted.
C9_Witness ==
  /\ cx.kind = "signed"
  /\ cx.body = <<70, 233>>
  /\ cx.secret = <<115, 51>>
  /\ cx.result = "true"
  /\ cx.exampleResult = "true"

\* C10 as stated: every one-bit mutation of the body or of the signature
\* header is rejected.
C10_EveryMutationRejected ==
  cx.kind \in {"bodyflip", "sigflip"} => cx.result \in {Pending, "false"}

\* C10 amended: every one-bit mutation of the body is rejected, and a
\* one-bit mutation of the signature header is rejected exactly when it is
\* not a change of case of a hex letter of the digest; mutations of the
\* prefix are all rejected.
C10_MutationRejectedUnlessCaseFlip ==
  cx.result # Pending =>
    /\ cx.kind = "bodyflip" => cx.result = "false"
    /\ cx.kind = "sigflip" => (cx.result = "false" <=> ~CaseOnlyFlip)
    /\ (cx.kind = "sigflip" /\ cx.i <= Len(Sha256Prefix)) => cx.result = "false"

\* C10 witness: a one-bit mutation turned a hex digit of the digest into
\* another hex digit and the header was rejected.
C10_Witness ==
  /\ cx.kind = "sigflip"
  /\ cx.i > Len(Sha256Prefix)
  /\ Unhex(cx.givenSig[cx.i]) # -1
  /\ Unhex(cx.givenSig[cx.i]) # Unhex(SignedHeader[cx.i])
  /\ cx.result = "false"

(***************************************************************************)
(* Properties of the inbound verifier and of the job records (Spec).       *)
(***************************************************************************)
\* The last exchange was a webhook request with the headers Cursor sends and
\* a complete status-change payload whose status is FINISHED or ERROR.
LastIsCompletionEvent ==
  /\ http.last.route = "cursor-webhooks"
  /\ http.last.userAgent = CursorUserAgent
  /\ http.last.eventType = "statusChange"
  /\ LET payload == JSONparse(http.last.rawBody) IN
       /\ payload.kind = "object"
       /\ payload.event = "statusChange"
       /\ Truthy(payload.id)
       /\ payload.timestamp
       /\ payload.status \in {"FINISHED", "ERROR"}

\* The records of job id among the records the last webhook request met:
\* those of the table when the handler looked the job up, or when it
\* answered without a lookup.
LastRecordsOf(id) == {m \in http.last.records : m.cursorAgentId = id}

\* The record of the job the last webhook request names carried a secret.
LastJobHasSecret ==
  /\ http.last.route = "cursor-webhooks"
  /\ LET payload == JSONparse(http.last.rawBody) IN
       /\ payload.kind = "object"
       /\ \E m \in LastRecordsOf(payload.id) : Truthy(m.webhookSecret)

\* The last webhook request carried a signature header whose value is not
\* the signature of its raw body under the secret of the job's record.
LastSignatureDoesNotVerify ==
  /\ LastJobHasSecret
  /\ http.last.signature # Null
  /\ LET payload == JSONparse(http.last.rawBody) IN
       \A m \in LastRecordsOf(payload.id) :
         http.last.signature # generateWebhookSignature(m.webhookSecret, http.last.rawBody)
         /\ ~verifyWebhookSignature(m.webhookSecret, http.last.rawBody, http.last.signature)

\* C1: a completion event for a job whose record carries a secret, with a
\* signature header that does not verify against the raw body, is answered
\* 401, and no reply is sent for a request whose signature header does not
\* verify.
C1_BadSignatureRejected ==
  /\ (LastIsCompletionEvent /\ LastSignatureDoesNotVerify)
       => (http.last.status = 401 /\ ~http.last.replyInvoked /\ http.last.replyTo = Null)
  /\ LastSignatureDoesNotVerify
       => (~http.last.replyInvoked /\ http.last.status \in {400, 401})

\* C2: a completion event for a job whose record carries a secret that
\* arrives without a signature header is answered 401 and no reply is sent.
C2_MissingSignatureRejected ==
  (LastIsCompletionEvent /\ LastJobHasSecret /\ http.last.signature = Null)
    => (http.last.status = 401 /\ ~http.last.replyInvoked)

\* C3: the record found by a job's id carries the secret and the
\* destination (the original email, which the webhook URL ends in) that the
\* launch request of that job carried, and the webhook handler reads that
\* secret from the record.
C3_RegisterLookupRoundTrip ==
  /\ \A job \in cursorApi :
       \A m \in MappingResult(job.id) :
         /\ m.originalEmailId = job.webhookUrl
         /\ m.webhookSecret = job.webhookSecret
  /\ \A job \in cursorApi :
       (LastIsCompletionEvent /\ JSONparse(http.last.rawBody).id = job.id
          /\ http.last.status # 404)
         => http.last.secretOnRecord = job.webhookSecret

\* The remainder of the case's signature header after the prefix consists
\* of an even number of hex digits.
RemainderIsHex ==
  LET rest == slice(cx.givenSig, Len(Sha256Prefix)) IN
    /\ Len(rest) % 2 = 0
    /\ \A j \in 1..Len(rest) : rest[j] <= 255 /\ Unhex(rest[j]) # -1

\* C11: a signature header without the 'sha256=' prefix, with a remainder
\* that is not valid hex, or with a remainder of another length than the
\* digest's, is answered false by the inbound verifier and by the receiving
\* example, and neither throws.
C11_MalformedFailsClosed ==
  (cx.kind = "malformed"
     /\ (~startsWith(cx.givenSig, Sha256Prefix)
           \/ ~RemainderIsHex
           \/ Len(cx.givenSig) # Len(Sha256Prefix) + 2 * DigestLen))
    => /\ cx.result \in {Pending, "false"}
       /\ cx.exampleResult \in {Pending, "false"}

\* C12: in every delivery, the i-th request carries X-Delivery-Attempt i and
\* the payload given to the call as its body; it carries an X-Signature
\* exactly when a non-empty secret was given, and that signature is
\* 'sha256=' plus the hex digest of the request's own body under the
\* secret, which the receiving verifier accepts.
C12_AttemptHeaders ==
  LET reqs == RequestsOf(sw.trace) IN
    \A i \in 1..Len(reqs) :
      /\ reqs[i].attempt = i
      /\ reqs[i].body = sw.body
      /\ (reqs[i].signature # Null) <=> (sw.secret # Null /\ sw.secret # <<>>)
      /\ reqs[i].signature # Null =>
           /\ reqs[i].signature = Sha256Prefix \o ToHex(createHmac(sw.secret, reqs[i].body))
           /\ exampleVerifyWebhookSignature(reqs[i].body, reqs[i].signature, sw.secret) = "true"

\* C12 witness: a delivery with secret 'k' made three requests, all signed.
C12_Witness ==
  /\ sw.pc = "done"
  /\ sw.secret = <<107>>
  /\ Len(RequestsOf(sw.trace)) = 3
  /\ RequestsOf(sw.trace)[3].attempt = 3
  /\ RequestsOf(sw.trace)[3].signature = generateWebhookSignature(<<107>>, sw.body)

\* The last exchange was a webhook request with the headers Cursor sends and
\* a complete status-change payload, whatever its status.
LastIsStatusChangeEvent ==
  /\ http.last.route = "cursor-webhooks"
  /\ http.last.userAgent = CursorUserAgent
  /\ http.last.eventType = "statusChange"
  /\ LET payload == JSONparse(http.last.rawBody) IN
       /\ payload.kind = "object"
       /\ payload.event = "statusChange"
       /\ Truthy(payload.id)
       /\ payload.timestamp
       /\ payload.status # ""

\* The job the last webhook request names had a record.
LastJobIsKnown ==
  /\ http.last.route = "cursor-webhooks"
  /\ LET payload == JSONparse(http.last.rawBody) IN
       /\ payload.kind = "object"
       /\ LastRecordsOf(payload.id) # {}

\* C13: a complete status-change event with status RUNNING, CREATING or
\* EXPIRED for a job that has a record is answered 200 and no reply is sent.
C13_NonTerminalIgnored ==
  (LastIsStatusChangeEvent /\ LastJobIsKnown
     /\ JSONparse(http.last.rawBody).status \in {"RUNNING", "CREATING", "EXPIRED"})
    => (http.last.status = 200 /\ ~http.last.replyInvoked)

\* C14: a complete FINISHED or ERROR event that names a job without a record
\* when the handler looks it up is answered 404 and no reply is sent,
\* whatever its signature header.
C14_UnknownJobRejected ==
  (LastIsCompletionEvent /\ ~LastJobIsKnown)
    => /\ http.last.status = 404
       /\ ~http.last.replyInvoked
       /\ http.last.replyTo = Null

\* C14 witness: a FINISHED event for the unknown job 'z', correctly signed
\* under the seeded secret, was answered 404.
C14_Witness ==
  /\ LastIsCompletionEvent
  /\ http.last.rawBody = PayloadText(<<122>>, 70)
  /\ http.last.signature = generateWebhookSignature(SeededSecret, http.last.rawBody)
  /\ \A m \in http.last.records : m.cursorAgentId # <<122>>
  /\ http.last.status = 404
  /\ ~http.last.replyInvoked

(***************************************************************************)
(* Redelivery of webhook requests (ReplaySpec).                            *)
(***************************************************************************)
\* The last exchange was a complete FINISHED event for a job whose record
\* carried a secret when the handler looked it up, signed under that
\* secret.
LastIsSignedFinishedEvent ==
  /\ LastIsCompletionEvent
  /\ LastJobHasSecret
  /\ LET payload == JSONparse(http.last.rawBody) IN
       /\ payload.status = "FINISHED"
       /\ \A m \in LastRecordsOf(payload.id) :
            http.last.signature = generateWebhookSignature(m.webhookSecret, http.last.rawBody)

\* The payload of the last webhook request has its source and its target.
LastHasSourceAndTarget ==
  /\ http.last.route = "cursor-webhooks"
  /\ LET payload == JSONparse(http.last.rawBody) IN
       payload.kind = "object" /\ payload.source /\ payload.target

\* The payload of the last webhook request has what the text of the reply
\* is made from: its source and, for a FINISHED job, its target.
LastReplyTextCanBeMade ==
  /\ http.last.route = "cursor-webhooks"
  /\ LET payload == JSONparse(http.last.rawBody) IN
       /\ payload.kind = "object"
       /\ payload.source
       /\ payload.status = "FINISHED" => payload.target

\* C15 as stated: a correctly signed FINISHED event, with source and
\* target, for a known job is answered 200 and reply-send is called for it,
\* so that after n deliveries reply-send has been called n times.
C15_ValidEventAnswered200 ==
  (LastIsSignedFinishedEvent /\ LastHasSourceAndTarget) =>
    /\ http.last.status = 200
    /\ http.last.replyInvoked
    /\ http.last.replies = http.last.delivery

\* C15 amended: a correctly signed FINISHED event for a known job is never
\* refused (no 4xx), on its first delivery or on a redelivery; a delivery
\* calls reply-send, once and to the job's original email, exactly when
\* INBOUND_API_KEY is configured and the payload has the source and the
\* target the text of the reply is made from; the answer is 200 exactly
\* when that call returned data, and 500 otherwise; so after n deliveries
\* of an event with source and target reply-send has been called n times
\* less the deliveries that found no INBOUND_API_KEY.
C15_ValidEventAcceptedEachTime ==
  LastIsSignedFinishedEvent =>
    /\ http.last.status \in {200, 500}
    /\ http.last.refused = 0
    /\ http.last.replyInvoked <=> (~http.last.keyMissing /\ LastReplyTextCanBeMade)
    /\ http.last.replies =
         (IF LastReplyTextCanBeMade THEN http.last.delivery - http.last.unconfigured
          ELSE 0)
    /\ http.last.replyInvoked =>
         (http.last.replyTo = <<101, 120>> /\ http.last.reply \in ReplyOutcomes)
    /\ http.last.status = 200 <=> (http.last.replyInvoked /\ http.last.reply = "data")

\* C15 witness: the second delivery of a correctly signed FINISHED event for
\* job 'x' was answered 200, and reply-send has been called twice.
C15_Witness ==
  /\ LastIsSignedFinishedEvent
  /\ LastHasSourceAndTarget
  /\ http.last.rawBody = PayloadText(<<120>>, 70)
  /\ http.last.delivery = 2
  /\ http.last.replies = 2
  /\ http.last.status = 200

(***************************************************************************)
(* Properties of the completion notifier (PollSpec, NotifierSpec).         *)
(***************************************************************************)
\* C16: over any sequence of polls, the notifier delivers at most one
\* completion webhook for a job.
C16_NotifiedAtMostOnce ==
  \A j \in JobIds : http.notified[j] <= 1


\* The last exchange is a status poll, or a registration.
LastIsPoll == http.last.route = "cursor-agents-get"
LastIsRegistration == http.last.route = "cursor-agents-post"

\* The elements of a sequence.
Range(seq) == {seq[i] : i \in 1..Len(seq)}

\* The webhooks the last poll or registration handed to sendWebhook.
LastDeliveries ==
  IF LastIsPoll \/ LastIsRegistration THEN Range(http.last.deliveries) ELSE {}

\* The webhooks handed to sendWebhook by the polls that are under way and
\* by the last poll or registration.
Deliveries ==
  LastDeliveries \cup UNION {Range(poll.deliveries) : poll \in http.polling}

\* The step is a step of the suspended poll; it ends the poll: the handler
\* answers; the poll as the step suspends it again.
IsStepOfPoll(poll) == poll \in http.polling /\ poll \notin http'.polling
IsEndOfPoll(poll) ==
  /\ poll \in http.polling
  /\ \A next \in http'.polling : next.poll # poll.poll
PollAfter(poll) == CHOOSE next \in http'.polling : next.poll = poll.poll

\* The tracker the notifier of the poll is at, and the status of its job
\* in Cursor's answer to the notifier.
TrackerAt(poll) == poll.trackers[poll.i]
StatusAt(poll) == StatusIn(poll.currentAgents, TrackerAt(poll).agentId)

\* The rows of the launch log that the notifier's update for the tracker
\* names.
RowsOf(log, tracker) ==
  {i \in 1..Len(log) : /\ log[i].cursorAgentId = tracker.agentId
                       /\ log[i].emailAgentId = tracker.emailAgentId}

\* The step is the update of the launch log for the tracker the poll is
\* at, and the update does not throw.
IsLogUpdateOf(poll) ==
  /\ IsStepOfPoll(poll)
  /\ poll.pc = "update"
  /\ ~(IsEndOfPoll(poll) /\ http'.last.checkThrew)

\* C17: the notifier hands a webhook to sendWebhook only for a job whose
\* status, as Cursor listed it, is FINISHED or ERROR, in a status poll as
\* in a registration: no job that is listed as RUNNING, CREATING or EXPIRED
\* causes a delivery attempt.
C17_OnlyTerminalNotified ==
  /\ \A d \in Deliveries :
       /\ d.status \in {"FINISHED", "ERROR"}
       /\ d.event = (IF d.status = "FINISHED" THEN "agent.completed" ELSE "agent.failed")
  /\ \A poll \in http.polling :
       poll.pc \in {"send", "update"} => StatusAt(poll) \in {"FINISHED", "ERROR"}
  /\ \A reg \in http.registering :
       reg.pc = "send" => reg.agentStatus \in {"FINISHED", "ERROR"}

\* A registration of a job that is listed as RUNNING is accepted and sends
\* nothing.
C17_Witness ==
  /\ LastIsRegistration
  /\ http.last.status = 200
  /\ http.last.deliveries = <<>>
  /\ http.last.agentStatus = "RUNNING"

\* C18: in a status poll, after sendWebhook has returned false for a job
\* the notifier goes on to the update of the launch log, which, unless it
\* throws, leaves the rows of the job and its email agent with the terminal
\* outcome: 'success' for FINISHED, 'failed' for ERROR; and the poll is
\* answered 200 with the active agents and no error.
C18_FailedNotificationRecorded ==
  [][\A poll \in http.polling :
       /\ (IsStepOfPoll(poll) /\ poll.pc = "send")
            => /\ ~IsEndOfPoll(poll)
               /\ PollAfter(poll).pc = "update"
               /\ PollAfter(poll).i = poll.i
       /\ (IsLogUpdateOf(poll) /\ ~poll.deliveries[Len(poll.deliveries)].sent)
            => \A i \in RowsOf(agentLaunchLog', TrackerAt(poll)) :
                 agentLaunchLog'[i].status =
                   (IF StatusAt(poll) = "FINISHED" THEN "success" ELSE "failed")
       /\ (IsEndOfPoll(poll) /\ \E d \in Range(http'.last.deliveries) : ~d.sent)
            => /\ http'.last.poll = poll.poll
               /\ http'.last.status = 200
               /\ http'.last.error = ""
               /\ http'.last.activeAgents = poll.activeAgents]_vars

\* A poll found a failed job, its webhook was not delivered, and the
\* launch log row reads 'failed'.
C18_Witness ==
  /\ LastIsPoll
  /\ http.last.status = 200
  /\ ~http.last.checkThrew
  /\ \E d \in LastDeliveries :
       /\ ~d.sent
       /\ d.status = "ERROR"
       /\ \E i \in 1..Len(agentLaunchLog) :
            /\ agentLaunchLog[i].cursorAgentId = d.agentId
            /\ agentLaunchLog[i].status = "failed"


\* The email agents through which a job was launched or registered, and
\* that have a webhook secret on record: the secret the poll notifier
\* signs the job's completion webhook with.
AgentsWithJobSecret ==
  {agentLaunchLog[i].emailAgentId : i \in {k \in 1..Len(agentLaunchLog) :
      /\ Truthy(agentLaunchLog[k].cursorAgentId)
      /\ agentLaunchLog[k].emailAgentId \in DOMAIN emailAgent
      /\ Truthy(emailAgent[agentLaunchLog[k].emailAgentId].webhookSecret)}}

\* C19: the signing secret of a job is write-once: once a secret is on
\* record for a job, no launch, registration or poll changes the secret its
\* completion event is signed with.
C19_SecretWriteOnce ==
  [][\A a \in AgentsWithJobSecret :
       a \in DOMAIN emailAgent'
         => emailAgent'[a].webhookSecret = emailAgent[a].webhookSecret]_vars


\* C20: a completion event for a job that Cursor created on a launch of
\* this system, and that has finished or failed, finds the job's record:
\* it is never answered 404, wherever Cursor's request falls between the
\* steps of the launch.
C20_LaunchedJobIsFound ==
  \A job \in cursorApi :
    (/\ job.status \in {"FINISHED", "ERROR"}
     /\ LastIsCompletionEvent
     /\ JSONparse(http.last.rawBody).id = job.id
     /\ JSONparse(http.last.rawBody).status = job.status)
      => http.last.status # 404


(***************************************************************************)
(* Further properties of the inbound verifier (Spec).                      *)
(***************************************************************************)
\* The records the path of the last webhook request names: the path ends in
\* the id of the original email, which the record of a job carries.
LastPathRecords ==
  IF http.last.route = "cursor-webhooks"
  THEN {m \in http.last.records : m.originalEmailId = http.last.pathId}
  ELSE {}

\* C21: the record, the secret and the reply destination the handler uses
\* for a completion event are those of the job the path names, whatever id
\* the body carries.
C21_RecordResolvedFromPath ==
  (LastIsCompletionEvent /\ LastPathRecords # {} /\ http.last.status # 404)
    => \E m \in LastPathRecords :
         /\ http.last.secretOnRecord = m.webhookSecret
         /\ http.last.replyInvoked => http.last.replyTo = m.originalEmailId

\* The last exchange was a complete FINISHED or ERROR event for a job that
\* had a record without a secret when the handler looked it up.
LastIsEventForJobWithoutSecret ==
  /\ LastIsCompletionEvent
  /\ LastJobIsKnown
  /\ ~LastJobHasSecret

DefaultDeliveryFailedWith5xx ==
  /\ sw.pc = "done"
  /\ sw.arg = -1
  /\ sw.trace # <<>>
  /\ \A i \in 1..Len(sw.trace) :
       IsRequest(sw.trace[i]) =>
         (sw.trace[i].kind = "response" /\ sw.trace[i].status >= 500)

\* C23: a delivery with the default settings to a destination that keeps
\* answering 5xx waits 1 s, 2 s and 4 s between its attempts.
C23_DocumentedBackoff ==
  DefaultDeliveryFailedWith5xx =>
    /\ Len(SleepsOf(sw.trace)) = 3
    /\ SleepsOf(sw.trace)[1].ms = 1000
    /\ SleepsOf(sw.trace)[2].ms = 2000
    /\ SleepsOf(sw.trace)[3].ms = 4000


(***************************************************************************)
(* Properties of the launch handler (Spec).                                *)
(***************************************************************************)
\* The part of an address from its last '@' on ('@x' for 'a@x'); the empty
\* text when it has none.
DomainOf(address) ==
  LET ats == IndexesOf(address, 64) IN
    IF ats = {} THEN <<>>
    ELSE SubSeq(address, CHOOSE i \in ats : \A j \in ats : j <= i, Len(address))

\* The sender's address is one of the agent's allowed emails, or its domain
\* is one of the agent's allowed domains.
SenderMatches(senderText, config) ==
  LET address == extractEmailAddress(senderText) IN
    \/ \E i \in 1..Len(config.allowedEmails) : config.allowedEmails[i] = address
    \/ \E i \in 1..Len(config.allowedDomains) : config.allowedDomains[i] = DomainOf(address)

\* The step is the answer to an inbound email that resolved to an active
\* email agent.
IsLaunchStep ==
  /\ http'.last.route = "inbound-receive"
  /\ http.last.route = "inbound-receive" => http'.last.launch # http.last.launch
  /\ http'.last.senderText # Null

\* The email agent has a non-empty allowed-domains or allowed-emails list.
Restricted(config) == Len(config.allowedDomains) + Len(config.allowedEmails) > 0

\* The step is a step of the suspended run: it starts the run, resumes it
\* or ends it.
IsStepOfRun(run) == (run \in http.inflight) # (run \in http'.inflight)

\* The step ends the suspended run: the handler answers.
IsEndOfRun(run) ==
  /\ run \in http.inflight
  /\ \A next \in http'.inflight : next.launch # run.launch

\* C24: an inbound email for an agent with a non-empty allowed-domains or
\* allowed-emails list whose sender matches neither list is answered 403,
\* and no step of its handling sends anything to Cursor or changes the
\* email agents or the job mapping; for an agent whose lists are both empty
\* no sender is answered 403.
C24_SenderRestriction ==
  [][\A run \in http.inflight \cup http'.inflight :
       IsStepOfRun(run) =>
         /\ (Restricted(run.config) /\ ~SenderMatches(run.senderText, run.config))
              => /\ run.pc = "log" /\ run.status = 403 /\ run.cursorAgentId = Null
                 /\ UNCHANGED <<emailAgent, cursorAgentMapping, cursorApi>>
                 /\ IsEndOfRun(run)
                      => /\ http'.last.route = "inbound-receive"
                         /\ http'.last.launch = run.launch
                         /\ http'.last.status = 403
                         /\ http'.last.answer = "none"
                         /\ http'.last.cursorAgentId = Null
         /\ (~Restricted(run.config) /\ IsEndOfRun(run))
              => http'.last.status # 403]_vars

\* C24 witness: the mail of 'c@z' to the agent that allows '@x' and 'b@y',
\* whose owner has a Cursor API key, was answered 403, and Cursor has no job.
C24_Witness ==
  /\ http.last.route = "inbound-receive"
  /\ http.last.configId = "ea2"
  /\ Truthy(user["u2"].defaultCursorApiKey)
  /\ http.last.senderText = <<99, 64, 122>>
  /\ "ea2" \in DOMAIN emailAgent
  /\ ~SenderMatches(http.last.senderText, emailAgent["ea2"])
  /\ http.last.status = 403
  /\ cursorApi = {}
  /\ cursorAgentMapping = SeededMappings


\* The launch-log status that goes with the answer of a launch.
StatusOfAnswer(status) ==
  IF status = 403 THEN "rejected" ELSE IF status = 200 THEN "success" ELSE "failed"

\* C25: the handling of an inbound email that resolved to an active email
\* agent adds exactly one row to the launch log, whose status goes with the
\* answer (rejected with 403, failed with 400 or 500, success with 200); and
\* a row of the launch log has status 'success' exactly when it carries a
\* Cursor agent id.
C25_AuditLog ==
  [][/\ IsLaunchStep =>
          /\ Len(agentLaunchLog') = Len(agentLaunchLog) + 1
          /\ agentLaunchLog'[Len(agentLaunchLog')].status = StatusOfAnswer(http'.last.status)
          /\ agentLaunchLog'[Len(agentLaunchLog')].emailAgentId = http'.last.configId
     /\ \A i \in 1..Len(agentLaunchLog') :
          agentLaunchLog'[i].status = "success" <=> Truthy(agentLaunchLog'[i].cursorAgentId)
    ]_vars


\* C26: the first failing step decides the answer, in the order parse and
\* shape (400), lookup (404), signature (401): a body that is not JSON, or
\* that is JSON without the required fields, is answered 400 whatever the
\* headers, and a completion event for a job without record is answered
\* 404 whatever its signature.
C26_ChecksInOrder ==
  http.last.route = "cursor-webhooks" =>
    LET payload == JSONparse(http.last.rawBody) IN
      /\ payload.kind = "throws" => http.last.status = 400
      /\ (payload.kind = "null"
            \/ (payload.kind = "object"
                  /\ (payload.event = "" \/ ~Truthy(payload.id) \/ payload.status = ""
                        \/ ~payload.timestamp)))
           => http.last.status = 400
      /\ (LastIsCompletionEvent /\ ~LastJobIsKnown) => http.last.status = 404

(***************************************************************************)
(* Further properties of the completion notifier (NotifierSpec, PollSpec). *)
(***************************************************************************)
\* C27: the payload of every webhook handed to sendWebhook names the event
\* agent.completed exactly for a FINISHED job and agent.failed exactly for
\* an ERROR job, carries the error field exactly for an ERROR job, and
\* carries as metadata the metadata the polling or registering user
\* registered for the job, unchanged.
C27_PayloadFromStatusAndMetadata ==
  \A d \in LastDeliveries :
    /\ d.status \in {"FINISHED", "ERROR"}
    /\ d.event = "agent.completed" <=> d.status = "FINISHED"
    /\ d.event = "agent.failed" <=> d.status = "ERROR"
    /\ d.error <=> d.status = "ERROR"
    /\ \A r \in Range(http.registered[d.agentId]) :
         r.user = http.last.user => d.metadata = r.metadata


\* A poll has processed the job in status ERROR: a row of the launch log
\* carries the job's id and the status 'failed' (a launch writes 'failed'
\* only without an id).
ProcessedAsError(log, j) ==
  \E i \in 1..Len(log) : log[i].cursorAgentId = j /\ log[i].status = "failed"

\* The step is the select of the trackers of the poll, which finds some.
IsTrackerSelectOf(poll) ==
  /\ IsStepOfPoll(poll)
  /\ poll.pc = "trackers"
  /\ ~IsEndOfPoll(poll)

\* The notes of the updates for ERROR jobs that name the job and the email
\* agent of the tracker.
NotesOf(processed, tracker) ==
  {e \in processed : /\ e.agentId = tracker.agentId
                      /\ e.emailAgentId = tracker.emailAgentId}

\* The step hands a webhook of the poll to sendWebhook.
IsSendOf(poll) == IsStepOfPoll(poll) /\ poll.pc = "send"

LaterDue(poll) ==
  {k \in (poll.i + 1)..Len(poll.trackers) :
     \E job \in poll.currentAgents :
       /\ job.id = poll.trackers[k].agentId
       /\ job.status \in {"FINISHED", "ERROR"}}

\* sendWebhook has returned false for a job of the poll.
HasFailedDelivery(poll) == \E d \in Range(poll.deliveries) : ~d.sent

\* C29: in a poll, sendWebhook returning false for a job does not end the
\* notifier: the update of the launch log of that job follows, and after an
\* update that does not throw the notifier goes on to the next tracked job
\* that is FINISHED or ERROR, in the order of the trackers, hands its
\* webhook to sendWebhook and sets its launch-log rows to the outcome.
C29_TrackedJobsIndependent ==
  [][\A poll \in http.polling :
       /\ (IsStepOfPoll(poll) /\ poll.pc = "send")
            => /\ ~IsEndOfPoll(poll)
               /\ PollAfter(poll).pc = "update"
               /\ PollAfter(poll).i = poll.i
       /\ (IsLogUpdateOf(poll) /\ HasFailedDelivery(poll))
            => /\ \A i \in RowsOf(agentLaunchLog', TrackerAt(poll)) :
                    agentLaunchLog'[i].status =
                      (IF StatusAt(poll) = "FINISHED" THEN "success" ELSE "failed")
               /\ IF LaterDue(poll) = {} THEN IsEndOfPoll(poll)
                  ELSE /\ ~IsEndOfPoll(poll)
                       /\ PollAfter(poll).pc = "send"
                       /\ PollAfter(poll).i \in LaterDue(poll)
                       /\ \A k \in LaterDue(poll) : PollAfter(poll).i <= k]_vars

\* C29 witness: one poll found jobs 'a' and 'b' failed; the webhook of the
\* first was not delivered, that of the second was, and both rows read
\* 'failed'.
C29_Witness ==
  /\ LastIsPoll
  /\ ~http.last.checkThrew
  /\ Len(http.last.deliveries) = 2
  /\ http.last.deliveries[1].agentId = <<97>> /\ ~http.last.deliveries[1].sent
  /\ http.last.deliveries[1].status = "ERROR"
  /\ http.last.deliveries[2].agentId = <<98>> /\ http.last.deliveries[2].sent
  /\ http.last.deliveries[2].status = "ERROR"
  /\ ProcessedAsError(agentLaunchLog, <<97>>)
  /\ ProcessedAsError(agentLaunchLog, <<98>>)


(***************************************************************************)
(* Webhook registration (RegisterSpec).                                    *)
(***************************************************************************)
\* The step starts a registration; it is a step of the suspended
\* registration; it ends it: the handler answers; the registration as the
\* step suspends it again.
IsStartOfRegistration == http'.registrations = http.registrations + 1
IsStepOfRegistration(reg) == reg \in http.registering /\ reg \notin http'.registering
IsEndOfRegistration(reg) ==
  /\ reg \in http.registering
  /\ \A next \in http'.registering : next.registration # reg.registration
RegistrationAfter(reg) ==
  CHOOSE next \in http'.registering : next.registration = reg.registration

\* The step writes: it changes an email agent or the launch log, or hands
\* a webhook to sendWebhook.
IsWriteOfRegistration ==
  \/ emailAgent' # emailAgent
  \/ agentLaunchLog' # agentLaunchLog
  \/ http'.notified # http.notified
  \/ (http'.last # http.last /\ http'.last.route = "cursor-agents-post"
        /\ http'.last.deliveries # <<>>)

\* The registration is in its validation: it waits for the second answer
\* of the database with the keys, or for Cursor's list of agents.
IsValidating(reg) == reg.pc \in {"agents", "user", "list"}

\* C30: a registration answers 400 or 404 only from its validation (the
\* checks of the body and of the key, and the request to Cursor), to which
\* it never returns, and no step of the validation changes an email agent,
\* inserts a launch-log row or sends a webhook; and a registration sends a
\* webhook only for an agent that Cursor listed as FINISHED or ERROR,
\* exactly one, whose result the answer carries as webhookSent.
C30_RegistrationValidatesFirst ==
  [][/\ IsStartOfRegistration
          => /\ ~IsWriteOfRegistration
             /\ \A reg \in http'.registering \ http.registering :
                  reg.pc \in {"agents", "user"}
     /\ \A reg \in http.registering :
          IsStepOfRegistration(reg) =>
            /\ IsValidating(reg) => ~IsWriteOfRegistration
            /\ (~IsEndOfRegistration(reg) /\ IsValidating(RegistrationAfter(reg)))
                 => /\ reg.pc \in {"agents", "user"}
                    /\ RegistrationAfter(reg).pc = "list"
            /\ (IsEndOfRegistration(reg) /\ http'.last.status \in {400, 404})
                 => IsValidating(reg)
            /\ (reg.pc = "send" \/ http'.notified # http.notified)
                 => /\ reg.pc = "send"
                    /\ reg.agentStatus \in {"FINISHED", "ERROR"}
                    /\ IsEndOfRegistration(reg)
                    /\ http'.last.status = 200
                    /\ Len(http'.last.deliveries) = 1
                    /\ http'.last.deliveries[1].agentId = reg.agentId
                    /\ http'.last.deliveries[1].status = reg.agentStatus
                    /\ http'.last.webhookSent =
                         (IF http'.last.deliveries[1].sent THEN "true" ELSE "false")
            /\ (IsEndOfRegistration(reg) /\ reg.pc # "send")
                 => /\ http'.last.deliveries = <<>>
                    /\ http'.last.webhookSent = "absent"
            /\ (reg.pc = "list" /\ ~IsEndOfRegistration(reg))
                 => \E job \in cursorApi :
                      /\ job.id = reg.agentId
                      /\ job.status = RegistrationAfter(reg).agentStatus]_vars

\* C30 witness: a registration for a job that had completed sent one
\* webhook, which was not delivered, and answered webhookSent false.
C30_Witness ==
  /\ LastIsRegistration
  /\ http.last.status = 200
  /\ Len(http.last.deliveries) = 1
  /\ ~http.last.deliveries[1].sent
  /\ http.last.webhookSent = "false"
  /\ http.last.agentStatus = "FINISHED"

====
